---- MODULE Spec2Model ----
(***************************************************************************)
(* A model of five_chess_game.py: the Game engine (place_piece, undo_move, *)
(* check_win, reset, ai_move and its evaluators, save_game, load_game),    *)
(* the command handlers of main() and the NetworkManager.                  *)
(***************************************************************************)
EXTENDS Integers, Sequences, FiniteSets, TLC

\* ------------------------------------------------------------------------
\* Program constants
\* ------------------------------------------------------------------------
BOARD_SIZE == 15
None == "None"
\* last_move is None (NoMove), a tuple (row, col) or, once read back from
\* JSON, a list [row, col]
NoMove == <<>>
Tuple(row, col) == <<"tuple", row, col>>
List(row, col) == <<"list", row, col>>
Players == {"BLACK", "WHITE"}
Difficulties == {"Easy", "Medium", "Hard"}

\* ------------------------------------------------------------------------
\* Bounds of the model
\* ------------------------------------------------------------------------
\* pygame.time.get_ticks() is read as a value in 0..MaxTicks
MaxTicks == 2
\* board clicks are taken while fewer than MaxMoves moves are recorded,
\* fewer than MaxAiMoves when playing against the AI
MaxMoves == 3
MaxAiMoves == 3
\* with saved_game.json in play, board clicks and save_game happen while at
\* most MaxSavedMoves moves are recorded
MaxSavedMoves == 1
\* the candidate loop of ai_move is cut by its deadline after 0..MaxScored
\* candidates, or not at all
MaxScored == 1

Idx == 0 .. (BOARD_SIZE - 1)
Opponent(p) == IF p = "BLACK" THEN "WHITE" ELSE "BLACK"
InBoard(r, c) == 0 <= r /\ r < BOARD_SIZE /\ 0 <= c /\ c < BOARD_SIZE
EmptyBoard == [r \in Idx |-> [c \in Idx |-> None]]
Max(a, b) == IF a >= b THEN a ELSE b
Min(a, b) == IF a <= b THEN a ELSE b
Abs(x) == IF x < 0 THEN 0 - x ELSE x
MinOf(S) == CHOOSE x \in S : \A y \in S : x <= y
MaxOf(S) == CHOOSE x \in S : \A y \in S : x >= y

\* the cells in row-major order: for row in range(15): for col in range(15)
AllCells == [i \in 1 .. (BOARD_SIZE * BOARD_SIZE) |->
               <<(i - 1) \div BOARD_SIZE, (i - 1) % BOARD_SIZE>>]
CellSet == {AllCells[i] : i \in DOMAIN AllCells}

\* the four axes, each a pair of opposite directions
directions == << <<(<<0, 1>>), (<<0, -1>>)>>,
                 <<(<<1, 0>>), (<<-1, 0>>)>>,
                 <<(<<1, 1>>), (<<-1, -1>>)>>,
                 <<(<<1, -1>>), (<<-1, 1>>)>> >>

\* ------------------------------------------------------------------------
\* Game.__init__
\* ------------------------------------------------------------------------
NewGame(now) ==
    [board |-> EmptyBoard,
     current_player |-> "BLACK",
     game_over |-> FALSE,
     winner |-> None,
     last_move |-> NoMove,
     vs_ai |-> TRUE,
     ai_player |-> "WHITE",
     difficulty |-> "Medium",
     move_history |-> <<>>,
     player_times |-> [p \in Players |-> 0],
     last_move_time |-> now,
     multiplayer |-> FALSE,
     is_host |-> FALSE,
     player_color |-> None]

\* ------------------------------------------------------------------------
\* Game.check_win
\* ------------------------------------------------------------------------
\* for i in range(1, 5): the stones of player met from (row, col) along
\* (dx, dy) before the first cell that is off the board or not player's
RECURSIVE RunFrom(_, _, _, _, _, _, _)
RunFrom(board, player, row, col, dx, dy, i) ==
    IF i >= 5 THEN 0
    ELSE LET r == row + dx * i
             c == col + dy * i
         IN IF InBoard(r, c) /\ board[r][c] = player
            THEN 1 + RunFrom(board, player, row, col, dx, dy, i + 1)
            ELSE 0

AxisCount(board, row, col, a) ==
    LET player == board[row][col]
        d1 == directions[a][1]
        d2 == directions[a][2]
    IN 1 + RunFrom(board, player, row, col, d1[1], d1[2], 1)
         + RunFrom(board, player, row, col, d2[1], d2[2], 1)

\* check_win as it would be with four in a row taken for a win
check_win_four(board, row, col) ==
    \E a \in 1 .. 4 : AxisCount(board, row, col, a) >= 4

check_win(board, row, col) ==
    \E a \in 1 .. 4 : AxisCount(board, row, col, a) >= 5

IsFull(board) == \A r \in Idx : \A c \in Idx : board[r][c] # None

\* ------------------------------------------------------------------------
\* The scan loop shared by check_opponent_threat and evaluate_position:
\* for i in range(1, 5) along (dx, dy): count the stones of who; an empty
\* cell ends the scan as an open end, anything else ends it without one.
\* The result is <<stones counted, open ends found>>.
\* ------------------------------------------------------------------------
RECURSIVE LineScan(_, _, _, _, _, _, _)
LineScan(board, who, row, col, dx, dy, i) ==
    IF i >= 5 THEN <<0, 0>>
    ELSE LET r == row + dx * i
             c == col + dy * i
         IN IF InBoard(r, c)
            THEN IF board[r][c] = who
                 THEN LET rest == LineScan(board, who, row, col, dx, dy, i + 1)
                      IN <<1 + rest[1], rest[2]>>
                 ELSE IF board[r][c] = None THEN <<0, 1>> ELSE <<0, 0>>
            ELSE <<0, 0>>

\* ------------------------------------------------------------------------
\* Game.check_opponent_threat
\* ------------------------------------------------------------------------
\* the chain with its second and third tests exchanging their scores
ThreatValue_swapped(opponent_count, open_ends) ==
    IF opponent_count >= 4 /\ open_ends >= 1 THEN 100
    ELSE IF opponent_count = 3 /\ open_ends >= 2 THEN 50
    ELSE IF opponent_count = 3 /\ open_ends = 1 THEN 80
    ELSE IF opponent_count = 2 /\ open_ends >= 2 THEN 30
    ELSE 0

\* the if/elif chain that scores one direction's counts
ThreatValue(opponent_count, open_ends) ==
    IF opponent_count >= 4 /\ open_ends >= 1 THEN 100
    ELSE IF opponent_count = 3 /\ open_ends >= 2 THEN 80
    ELSE IF opponent_count = 3 /\ open_ends = 1 THEN 50
    ELSE IF opponent_count = 2 /\ open_ends >= 2 THEN 30
    ELSE 0

\* the body of "for dx, dy in dir_pair": scan along (dx, dy), then the
\* opposite way, and score the sums
DirThreat(board, opponent, row, col, dx, dy) ==
    LET fwd == LineScan(board, opponent, row, col, dx, dy, 1)
        bwd == LineScan(board, opponent, row, col, 0 - dx, 0 - dy, 1)
    IN ThreatValue(fwd[1] + bwd[1], fwd[2] + bwd[2])

\* the two nested loops over directions, k = 1..8 numbering the (axis,
\* direction) pairs in order; a value of 100 sets max_threat_found and
\* leaves both loops
RECURSIVE ThreatLoop(_, _, _, _, _, _)
ThreatLoop(board, opponent, row, col, k, threat_score) ==
    IF k > 8 THEN threat_score
    ELSE LET d == directions[(k + 1) \div 2][((k + 1) % 2) + 1]
             s == DirThreat(board, opponent, row, col, d[1], d[2])
         IN IF s = 100 THEN Max(threat_score, 100)
            ELSE ThreatLoop(board, opponent, row, col, k + 1,
                            Max(threat_score, s))

\* the piece placed at (row, col) for the scan is removed before returning
check_opponent_threat(board, current_player, row, col, opponent) ==
    ThreatLoop([board EXCEPT ![row][col] = current_player],
               opponent, row, col, 1, 0)

\* ------------------------------------------------------------------------
\* Game.evaluate_position
\* ------------------------------------------------------------------------
AxisValue(consecutive, open_ends) ==
    IF consecutive >= 5 THEN 100
    ELSE IF consecutive = 4 THEN (IF open_ends >= 1 THEN 50 ELSE 25)
    ELSE IF consecutive = 3
         THEN (IF open_ends = 2 THEN 20 ELSE IF open_ends = 1 THEN 10 ELSE 5)
    ELSE IF consecutive = 2
         THEN (IF open_ends = 2 THEN 8 ELSE IF open_ends = 1 THEN 3 ELSE 0)
    ELSE 0

AxisScore(board, player, row, col, a) ==
    LET d1 == directions[a][1]
        d2 == directions[a][2]
        s1 == LineScan(board, player, row, col, d1[1], d1[2], 1)
        s2 == LineScan(board, player, row, col, d2[1], d2[2], 1)
    IN AxisValue(1 + s1[1] + s2[1], s1[2] + s2[2])

Distance(row, col, rc) == Abs(row - rc[1]) + Abs(col - rc[2])

\* the cells of board that hold a stone, found row by row (a row equal to
\* the empty row holds none)
EmptyRow == [c \in Idx |-> None]
Stones(board) ==
    UNION {{<<r, c>> : c \in {c \in Idx : board[r][c] # None}} :
             r \in {r \in Idx : board[r] # EmptyRow}}

\* the proximity part: proximity_score first collects weight * 3 for every
\* opposing stone within distance 2, and is then assigned
\* weight * (15 - min(min_distance, 15)) when an opposing stone exists
ProximityScore(board, opponent, row, col) ==
    LET stones == Stones(board)
        moves_made == Cardinality(stones)
        proximity_weight == Max(50 - moves_made * 5, 10)
        pieces == {rc \in stones : board[rc[1]][rc[2]] = opponent}
        collected ==
            proximity_weight * 3
              * Cardinality({rc \in pieces : Distance(row, col, rc) <= 2})
    IN IF pieces = {} THEN 0
       ELSE LET min_distance == MinOf({Distance(row, col, rc) : rc \in pieces})
                assigned == proximity_weight * (15 - Min(min_distance, 15))
            IN IF min_distance <= 1 THEN assigned * 2 ELSE assigned

evaluate_position(board, player, row, col) ==
    LET opponent == IF player = "WHITE" THEN "BLACK" ELSE "WHITE"
    IN AxisScore(board, player, row, col, 1)
       + AxisScore(board, player, row, col, 2)
       + AxisScore(board, player, row, col, 3)
       + AxisScore(board, player, row, col, 4)
       + ProximityScore(board, opponent, row, col)

\* ------------------------------------------------------------------------
\* Candidate lists: list.sort(key=...) is stable, then a slice [:limit]
\* ------------------------------------------------------------------------
\* a list of valid moves that holds every cell, empty or not
ValidMoves_all(board) ==
    SelectSeq(AllCells, LAMBDA rc : TRUE)

ValidMoves(board) ==
    SelectSeq(AllCells, LAMBDA rc : board[rc[1]][rc[2]] = None)

CentreKey(rc) ==
    Abs(rc[1] - BOARD_SIZE \div 2) + Abs(rc[2] - BOARD_SIZE \div 2)

PiecesKey(rc, pieces) == MinOf({Distance(rc[1], rc[2], q) : q \in pieces})

\* keyed is a sequence of <<cell, key>>; the cells with key d, d + 1, ...
\* are appended in their order of appearance until limit cells are there
RECURSIVE SortTake(_, _, _, _)
SortTake(keyed, limit, d, acc) ==
    IF Len(acc) >= limit \/ d > 2 * (BOARD_SIZE - 1)
    THEN SubSeq(acc, 1, Min(limit, Len(acc)))
    ELSE SortTake(keyed, limit, d + 1,
                  acc \o SelectSeq(keyed, LAMBDA q : q[2] = d))

Cells(keyed) == [i \in 1 .. Len(keyed) |-> keyed[i][1]]

\* all cells sorted by their distance to the centre, ties in row-major order
CentreOrder ==
    Cells(SortTake([i \in DOMAIN AllCells |-> <<AllCells[i], CentreKey(AllCells[i])>>],
                   Len(AllCells), 0, <<>>))

\* the first limit empty cells of order, from its i-th cell on
RECURSIVE TakeEmpty(_, _, _, _)
TakeEmpty(board, order, i, limit) ==
    IF limit = 0 \/ i > Len(order) THEN <<>>
    ELSE IF board[order[i][1]][order[i][2]] = None
         THEN <<order[i]>> \o TakeEmpty(board, order, i + 1, limit - 1)
         ELSE TakeEmpty(board, order, i + 1, limit)

\* the empty cells of board (in row-major order) sorted by their distance
\* to the centre and cut to limit: the sort being stable, these are the
\* first limit empty cells of CentreOrder
SortByCentre(board, limit) == TakeEmpty(board, CentreOrder, 1, limit)

SortByPieces(moves, pieces, limit) ==
    Cells(SortTake([i \in 1 .. Len(moves) |->
                      <<moves[i], PiecesKey(moves[i], pieces)>>],
                   limit, 0, <<>>))

\* ------------------------------------------------------------------------
\* Game.evaluate_move
\* ------------------------------------------------------------------------
RECURSIVE evaluate_move(_, _, _, _, _)
RECURSIVE ResponseLoop(_, _, _, _, _, _, _)

\* "for r, c in response_moves": has/best stand for opponent_best_score,
\* has = FALSE being -inf; the loop is left once the best exceeds 500
ResponseLoop(board, player, response_moves, i, depth, has, best) ==
    IF i > Len(response_moves) THEN <<has, best>>
    ELSE LET response_score ==
                 evaluate_move(board, player, response_moves[i][1],
                               response_moves[i][2], depth)
             opponent_best_score ==
                 IF has THEN Max(best, response_score) ELSE response_score
         IN IF opponent_best_score > 500 THEN <<TRUE, opponent_best_score>>
            ELSE ResponseLoop(board, player, response_moves, i + 1, depth,
                              TRUE, opponent_best_score)

\* player is self.current_player at the call; the result is the score (the
\* stone and the swap of current_player are undone before returning)
evaluate_move(board, player, row, col, depth) ==
    LET placed == [board EXCEPT ![row][col] = player]
    IN IF check_win(placed, row, col) THEN 1000
       ELSE LET score == evaluate_position(placed, player, row, col)
            IN IF depth > 0
               THEN LET response_moves == SortByCentre(placed, 15)
                        reply == ResponseLoop(placed, Opponent(player),
                                              response_moves, 1, depth - 1,
                                              FALSE, 0)
                    IN IF reply[1] THEN score - reply[2] ELSE score
               ELSE score

\* ------------------------------------------------------------------------
\* What the evaluator leaves behind: self.board and self.current_player
\* when a call returns, given their values at the call. The stone is written
\* into the board of the game and the player is swapped in the game itself.
\* ------------------------------------------------------------------------
RECURSIVE evaluate_move_leaves(_, _, _, _, _)
RECURSIVE ResponseLoop_leaves(_, _, _, _, _, _)

\* "for r, c in response_moves", from the i-th move on, s being the board
\* and the player before the call evaluate_move(r, c, depth)
ResponseLoop_leaves(s, response_moves, i, depth, has, best) ==
    IF i > Len(response_moves) THEN s
    ELSE LET response_score ==
                 evaluate_move(s.board, s.current_player, response_moves[i][1],
                               response_moves[i][2], depth)
             after ==
                 evaluate_move_leaves(s.board, s.current_player,
                                      response_moves[i][1], response_moves[i][2],
                                      depth)
             opponent_best_score ==
                 IF has THEN Max(best, response_score) ELSE response_score
         IN IF opponent_best_score > 500 THEN after
            ELSE ResponseLoop_leaves(after, response_moves, i + 1, depth,
                                     TRUE, opponent_best_score)

\* evaluate_move without the switch back to the original player
evaluate_move_leaves_swapped(board, player, row, col, depth) ==
    LET placed == [board EXCEPT ![row][col] = player]
        s == IF check_win(placed, row, col) \/ depth <= 0
             THEN [board |-> placed, current_player |-> player]
             ELSE ResponseLoop_leaves(
                      [board |-> placed, current_player |-> Opponent(player)],
                      SortByCentre(placed, 15), 1, depth - 1, FALSE, 0)
    IN [s EXCEPT !.board[row][col] = None]

evaluate_move_leaves(board, player, row, col, depth) ==
    LET placed == [board EXCEPT ![row][col] = player]
        s == IF check_win(placed, row, col) \/ depth <= 0
             THEN [board |-> placed, current_player |-> player]
             ELSE LET after ==
                          ResponseLoop_leaves(
                              [board |-> placed,
                               current_player |-> Opponent(player)],
                              SortByCentre(placed, 15), 1, depth - 1, FALSE, 0)
                  IN [after EXCEPT !.current_player = Opponent(@)]
    IN [s EXCEPT !.board[row][col] = None]

\* check_opponent_threat: "Temporarily place our piece here" and "Undo our
\* temporary move" around the scan
check_opponent_threat_leaves(board, current_player, row, col) ==
    LET placed == [board EXCEPT ![row][col] = current_player]
    IN [placed EXCEPT ![row][col] = None]

\* one turn of the first or second loop of ai_move that does not return:
\* the stone of who is set, check_win is asked, the stone is removed
TrialLeaves(board, who, row, col) ==
    LET placed == [board EXCEPT ![row][col] = who]
    IN [placed EXCEPT ![row][col] = None]

\* ------------------------------------------------------------------------
\* Game.place_piece and Game.ai_move call each other. Both are given the
\* values pygame.time.get_ticks() returns: now to this call, later to the
\* call the AI makes. A call's result is the set of its possible outcomes
\* (ai_move draws random numbers and reads the wall clock).
\* ------------------------------------------------------------------------
RECURSIVE place_piece(_, _, _, _, _)
RECURSIVE ai_move(_, _)

\* the entry appended to move_history: the move and the state before it
MoveData(g, row, col) ==
    [row |-> row,
     col |-> col,
     player |-> g.current_player,
     board_state |-> g.board,
     current_player |-> g.current_player,
     game_over |-> g.game_over,
     winner |-> g.winner,
     last_move |-> g.last_move]

\* the same lines with the test of a full board made before check_win
ApplyMove_draw_first(g, row, col, now) ==
    LET timed == [g EXCEPT
                    !.player_times[g.current_player] =
                        IF g.last_move_time > 0
                        THEN @ + (now - g.last_move_time) ELSE @,
                    !.last_move_time = now]
        moved == [timed EXCEPT
                    !.move_history = Append(@, MoveData(g, row, col)),
                    !.board[row][col] = g.current_player,
                    !.last_move = Tuple(row, col)]
    IN IF IsFull(moved.board)
       THEN [moved EXCEPT !.game_over = TRUE]
       ELSE IF check_win(moved.board, row, col)
            THEN [moved EXCEPT !.game_over = TRUE, !.winner = g.current_player]
            ELSE [moved EXCEPT !.current_player = Opponent(g.current_player)]

\* the lines of place_piece from the timing to the switch of player
ApplyMove(g, row, col, now) ==
    LET timed == [g EXCEPT
                    !.player_times[g.current_player] =
                        IF g.last_move_time > 0
                        THEN @ + (now - g.last_move_time) ELSE @,
                    !.last_move_time = now]
        moved == [timed EXCEPT
                    !.move_history = Append(@, MoveData(g, row, col)),
                    !.board[row][col] = g.current_player,
                    !.last_move = Tuple(row, col)]
    IN IF check_win(moved.board, row, col)
       THEN [moved EXCEPT !.game_over = TRUE, !.winner = g.current_player]
       ELSE IF IsFull(moved.board)
            THEN [moved EXCEPT !.game_over = TRUE]
            ELSE [moved EXCEPT !.current_player = Opponent(g.current_player)]

\* place_piece as it would be without its test of game_over
place_piece_when_over(g, row, col, now, later) ==
    IF row < 0 \/ row >= BOARD_SIZE \/ col < 0 \/ col >= BOARD_SIZE
    THEN {[game |-> g, ret |-> FALSE]}
    ELSE IF g.board[row][col] # None
         THEN {[game |-> g, ret |-> FALSE]}
         ELSE LET applied == ApplyMove(g, row, col, now)
              IN IF ~applied.game_over /\ applied.vs_ai
                    /\ applied.current_player = applied.ai_player
                 THEN {[game |-> h, ret |-> TRUE] : h \in ai_move(applied, later)}
                 ELSE {[game |-> applied, ret |-> TRUE]}

\* the outcomes of place_piece: the game afterwards and the value returned
place_piece(g, row, col, now, later) ==
    IF g.game_over \/ row < 0 \/ row >= BOARD_SIZE \/ col < 0 \/ col >= BOARD_SIZE
    THEN {[game |-> g, ret |-> FALSE]}
    ELSE IF g.board[row][col] # None
         THEN {[game |-> g, ret |-> FALSE]}
         ELSE LET applied == ApplyMove(g, row, col, now)
              IN IF ~applied.game_over /\ applied.vs_ai
                    /\ applied.current_player = applied.ai_player
                 THEN {[game |-> h, ret |-> TRUE] : h \in ai_move(applied, later)}
                 ELSE {[game |-> applied, ret |-> TRUE]}

\* ------------------------------------------------------------------------
\* Game.ai_move
\* ------------------------------------------------------------------------
Randomness(difficulty) ==
    IF difficulty = "Easy" THEN 20 ELSE IF difficulty = "Medium" THEN 5 ELSE 1

Depth(difficulty) == IF difficulty = "Easy" THEN 0 ELSE 1

MaxPositions(difficulty) == IF difficulty = "Hard" THEN 20 ELSE 15

\* the last cell of moves where a stone of who completes five, or NoMove
FirstWinning_last(board, moves, who) ==
    LET wins == {i \in 1 .. Len(moves) :
                   check_win([board EXCEPT ![moves[i][1]][moves[i][2]] = who],
                             moves[i][1], moves[i][2])}
    IN IF wins = {} THEN NoMove ELSE moves[MaxOf(wins)]

\* the first cell of moves where a stone of who completes five, or NoMove
FirstWinning(board, moves, who) ==
    LET wins == {i \in 1 .. Len(moves) :
                   check_win([board EXCEPT ![moves[i][1]][moves[i][2]] = who],
                             moves[i][1], moves[i][2])}
    IN IF wins = {} THEN NoMove ELSE moves[MinOf(wins)]

\* threat_moves left unsorted: its first entry, or NoMove
BiggestThreat_unsorted(board, current_player, moves, opponent) ==
    LET threat == [i \in 1 .. Len(moves) |->
                     check_opponent_threat(board, current_player,
                                           moves[i][1], moves[i][2], opponent)]
        found == {i \in 1 .. Len(moves) : threat[i] > 0}
    IN IF found = {} THEN NoMove
       ELSE moves[MinOf(found)]

\* threat_moves sorted by threat score, highest first (the sort is stable):
\* its first entry, or NoMove when no cell has a threat score above 0
BiggestThreat(board, current_player, moves, opponent) ==
    LET threat == [i \in 1 .. Len(moves) |->
                     check_opponent_threat(board, current_player,
                                           moves[i][1], moves[i][2], opponent)]
        found == {i \in 1 .. Len(moves) : threat[i] > 0}
    IN IF found = {} THEN NoMove
       ELSE LET top == MaxOf({threat[i] : i \in found})
            IN moves[MinOf({i \in found : threat[i] = top})]

\* the candidate list of the last stage: sorted and cut to max_positions
Candidates(board, valid_moves, opponent, difficulty) ==
    LET max_positions == MaxPositions(difficulty)
        moves_made == Cardinality(Stones(board))
        player_pieces == {rc \in Stones(board) : board[rc[1]][rc[2]] = opponent}
    IN IF moves_made <= 4 /\ player_pieces # {}
       THEN SortByPieces(valid_moves, player_pieces, max_positions)
       ELSE SortByCentre(board, max_positions)

\* how many candidates the loop scores before time.time() - start_time
\* exceeds time_limit: none, a few, or all of them
ScoredCounts(n) == (0 .. Min(MaxScored, n)) \union {n}

\* best_move after the first k candidates got a score and a jitter drawn
\* from [0, randomness): a candidate can end up best iff its score is
\* within randomness of the highest score
BestMoves(score, moves, k, randomness) ==
    IF k = 0 THEN {NoMove}
    ELSE LET top == MaxOf({score[i] : i \in 1 .. k})
         IN {moves[i] : i \in {j \in 1 .. k : score[j] > top - randomness}}

SearchMoves(board, current_player, moves, difficulty) ==
    LET score == [i \in 1 .. Len(moves) |->
                    evaluate_move(board, current_player, moves[i][1],
                                  moves[i][2], Depth(difficulty))]
    IN UNION {BestMoves(score, moves, k, Randomness(difficulty)) :
                k \in ScoredCounts(Len(moves))}

\* ai_move without its second priority
ChosenMoves_no_block(g) ==
    LET valid_moves == ValidMoves(g.board)
        opponent == IF g.current_player = "BLACK" THEN "WHITE" ELSE "BLACK"
        winning == FirstWinning(g.board, valid_moves, g.current_player)
        threat == BiggestThreat(g.board, g.current_player, valid_moves, opponent)
    IN IF Len(valid_moves) = 0 THEN {NoMove}
       ELSE IF winning # NoMove THEN {winning}
       ELSE IF threat # NoMove THEN {threat}
       ELSE SearchMoves(g.board, g.current_player,
                        Candidates(g.board, valid_moves, opponent, g.difficulty),
                        g.difficulty)

\* the cells ai_move may hand to place_piece; NoMove when it places nothing
ChosenMoves(g) ==
    LET valid_moves == ValidMoves(g.board)
        opponent == IF g.current_player = "BLACK" THEN "WHITE" ELSE "BLACK"
        winning == FirstWinning(g.board, valid_moves, g.current_player)
        blocking == FirstWinning(g.board, valid_moves, opponent)
        threat == BiggestThreat(g.board, g.current_player, valid_moves, opponent)
    IN IF Len(valid_moves) = 0 THEN {NoMove}
       ELSE IF winning # NoMove THEN {winning}
       ELSE IF blocking # NoMove THEN {blocking}
       ELSE IF threat # NoMove THEN {threat}
       ELSE SearchMoves(g.board, g.current_player,
                        Candidates(g.board, valid_moves, opponent, g.difficulty),
                        g.difficulty)

ai_move(g, now) ==
    UNION {IF m = NoMove THEN {g}
           ELSE {o.game : o \in place_piece(g, m[1], m[2], now, now)} :
           m \in ChosenMoves(g)}

\* ------------------------------------------------------------------------
\* What another thread can read in self.game while place_piece and ai_move
\* run: the game is changed in place, field by field and stone by stone.
\* The views are those of single moments, taken at the first MaxSeenTrials
\* cells of each loop.
\* ------------------------------------------------------------------------
MaxSeenTrials == 3

FirstOf(moves) == {moves[i] : i \in 1 .. Min(MaxSeenTrials, Len(moves))}

\* the cells a loop of the first two stages tries: all up to the first
\* where who completes five
TriedCells(board, moves, who) ==
    LET first == FirstWinning(board, moves, who)
        last == IF first = NoMove THEN Len(moves)
                ELSE MinOf({i \in 1 .. Len(moves) : moves[i] = first})
    IN FirstOf(SubSeq(moves, 1, last))

\* evaluate_move(row, col, depth) at work on the game as ai_move got it:
\* the candidate's stone, then the player swapped, then a reply's stone
EvaluateViews(g, row, col, depth) ==
    LET placed == [g EXCEPT !.board[row][col] = g.current_player]
        swapped == [placed EXCEPT !.current_player = Opponent(g.current_player)]
    IN {placed}
         \union
       (IF depth > 0 /\ ~check_win(placed.board, row, col)
        THEN {swapped}
               \union
             {[swapped EXCEPT !.board[m[1]][m[2]] = swapped.current_player] :
                m \in FirstOf(SortByCentre(placed.board, 15))}
        ELSE {})

\* ai_move at work on game g, up to its call of place_piece
SearchViews(g) ==
    LET valid_moves == ValidMoves(g.board)
        opponent == Opponent(g.current_player)
        winning == FirstWinning(g.board, valid_moves, g.current_player)
        blocking == FirstWinning(g.board, valid_moves, opponent)
        threat == BiggestThreat(g.board, g.current_player, valid_moves, opponent)
        moves == Candidates(g.board, valid_moves, opponent, g.difficulty)
    IN {[g EXCEPT !.board[m[1]][m[2]] = g.current_player] :
          m \in TriedCells(g.board, valid_moves, g.current_player)}
         \union
       (IF winning # NoMove THEN {}
        ELSE {[g EXCEPT !.board[m[1]][m[2]] = opponent] :
                m \in TriedCells(g.board, valid_moves, opponent)})
         \union
       (IF winning # NoMove \/ blocking # NoMove THEN {}
        ELSE {[g EXCEPT !.board[m[1]][m[2]] = g.current_player] :
                m \in FirstOf(valid_moves)})
         \union
       (IF winning # NoMove \/ blocking # NoMove \/ threat # NoMove THEN {}
        ELSE UNION {EvaluateViews(g, m[1], m[2], Depth(g.difficulty)) :
                      m \in FirstOf(moves)})

\* place_piece(row, col) at work on game g, the click being accepted: the
\* stone is set, then last_move, then game_over and the winner or the
\* switch of player; and ai_move when it is called
PlaceViews(g, row, col, now) ==
    LET stone == [g EXCEPT !.board[row][col] = g.current_player]
        moved == [stone EXCEPT !.last_move = Tuple(row, col)]
        applied == ApplyMove(g, row, col, now)
    IN {stone, moved}
         \union
       (IF applied.game_over /\ applied.winner # None
        THEN {[moved EXCEPT !.game_over = TRUE]} ELSE {})
         \union
       (IF ~applied.game_over /\ applied.vs_ai
           /\ applied.current_player = applied.ai_player
        THEN {applied} \union SearchViews(applied) ELSE {})

\* ------------------------------------------------------------------------
\* Game.reset
\* ------------------------------------------------------------------------
reset(g, now, later) ==
    LET cleared == [g EXCEPT
                      !.board = EmptyBoard,
                      !.current_player = "BLACK",
                      !.game_over = FALSE,
                      !.winner = None,
                      !.last_move = NoMove,
                      !.move_history = <<>>,
                      !.player_times = [p \in Players |-> 0],
                      !.last_move_time = now]
    IN IF cleared.vs_ai /\ cleared.ai_player = "BLACK"
       THEN ai_move(cleared, later)
       ELSE {cleared}

\* ------------------------------------------------------------------------
\* Game.undo_move
\* ------------------------------------------------------------------------
Pop(h) == SubSeq(h, 1, Len(h) - 1)

\* undo_move taking the board of the entry it removed and the rest from the
\* entry before it
undo_move_board_of_last(g, now, later) ==
    IF Len(g.move_history) = 0
    THEN {[game |-> g, ret |-> FALSE]}
    ELSE LET once == Pop(g.move_history)
             left == IF g.vs_ai /\ Len(once) > 0
                        /\ g.current_player # g.ai_player
                     THEN Pop(once) ELSE once
         IN IF Len(left) = 0
            THEN {[game |-> h, ret |-> TRUE] :
                    h \in reset([g EXCEPT !.move_history = left], now, later)}
            ELSE LET prev_state == left[Len(left)]
                     last_state == g.move_history[Len(left) + 1]
                 IN {[game |-> [g EXCEPT
                                  !.move_history = left,
                                  !.board = last_state.board_state,
                                  !.current_player = prev_state.current_player,
                                  !.game_over = prev_state.game_over,
                                  !.winner = prev_state.winner,
                                  !.last_move = prev_state.last_move,
                                  !.last_move_time = now],
                      ret |-> TRUE]}

\* undo_move with a reset where the code returns at once
undo_move_resets(g, now, later) ==
    IF Len(g.move_history) = 0
    THEN {[game |-> h, ret |-> FALSE] : h \in reset(g, now, later)}
    ELSE LET once == Pop(g.move_history)
             left == IF g.vs_ai /\ Len(once) > 0
                        /\ g.current_player # g.ai_player
                     THEN Pop(once) ELSE once
         IN IF Len(left) = 0
            THEN {[game |-> h, ret |-> TRUE] :
                    h \in reset([g EXCEPT !.move_history = left], now, later)}
            ELSE LET prev_state == left[Len(left)]
                 IN {[game |-> [g EXCEPT
                                  !.move_history = left,
                                  !.board = prev_state.board_state,
                                  !.current_player = prev_state.current_player,
                                  !.game_over = prev_state.game_over,
                                  !.winner = prev_state.winner,
                                  !.last_move = prev_state.last_move,
                                  !.last_move_time = now],
                      ret |-> TRUE]}

\* undo_move without the lines that restore game_over and winner
undo_move_keeps_outcome(g, now, later) ==
    IF Len(g.move_history) = 0
    THEN {[game |-> g, ret |-> FALSE]}
    ELSE LET once == Pop(g.move_history)
             left == IF g.vs_ai /\ Len(once) > 0
                        /\ g.current_player # g.ai_player
                     THEN Pop(once) ELSE once
         IN IF Len(left) = 0
            THEN {[game |-> h, ret |-> TRUE] :
                    h \in reset([g EXCEPT !.move_history = left], now, later)}
            ELSE LET prev_state == left[Len(left)]
                 IN {[game |-> [g EXCEPT
                                  !.move_history = left,
                                  !.board = prev_state.board_state,
                                  !.current_player = prev_state.current_player,
                                  !.last_move = prev_state.last_move,
                                  !.last_move_time = now],
                      ret |-> TRUE]}

undo_move(g, now, later) ==
    IF Len(g.move_history) = 0
    THEN {[game |-> g, ret |-> FALSE]}
    ELSE LET once == Pop(g.move_history)
             left == IF g.vs_ai /\ Len(once) > 0
                        /\ g.current_player # g.ai_player
                     THEN Pop(once) ELSE once
         IN IF Len(left) = 0
            THEN {[game |-> h, ret |-> TRUE] :
                    h \in reset([g EXCEPT !.move_history = left], now, later)}
            ELSE LET prev_state == left[Len(left)]
                 IN {[game |-> [g EXCEPT
                                  !.move_history = left,
                                  !.board = prev_state.board_state,
                                  !.current_player = prev_state.current_player,
                                  !.game_over = prev_state.game_over,
                                  !.winner = prev_state.winner,
                                  !.last_move = prev_state.last_move,
                                  !.last_move_time = now],
                      ret |-> TRUE]}

\* ------------------------------------------------------------------------
\* Game.save_game and Game.load_game. The file saved_game.json is
\*   [kind |-> "missing"]                      no such file
\*   [kind |-> "corrupt"]                      text json.loads rejects
\*   [kind |-> "json", keys |-> K, data |-> d] a JSON object with the keys K,
\*                                             d[k] the value under key k
\* ------------------------------------------------------------------------
\* the keys of game_state in the order load_game reads them
LoadOrder == <<"board", "current_player", "game_over", "winner", "last_move",
               "vs_ai", "ai_player", "difficulty", "player_times",
               "move_history">>
SavedKeys == {LoadOrder[i] : i \in DOMAIN LoadOrder}

\* json.dumps followed by json.loads: a tuple comes back as a list, None as
\* None, everything else as it was
JsonMove(m) == IF m = NoMove THEN NoMove ELSE List(m[2], m[3])
JsonEntry(e) == [e EXCEPT !.last_move = JsonMove(@)]
JsonOf(g) ==
    [k \in SavedKeys |->
       IF k = "last_move" THEN JsonMove(g.last_move)
       ELSE IF k = "move_history"
            THEN [i \in 1 .. Len(g.move_history) |-> JsonEntry(g.move_history[i])]
            ELSE g[k]]

NoData == [k \in SavedKeys |-> None]
MissingFile == [kind |-> "missing", keys |-> {}, data |-> NoData]
CorruptFile == [kind |-> "corrupt", keys |-> {}, data |-> NoData]

save_game(g) == [kind |-> "json", keys |-> SavedKeys, data |-> JsonOf(g)]

\* the assignments self.board = game_state['board'], ... in order: a key
\* that is not there raises KeyError, which ends the method in its except
\* clause with the assignments made so far in place
RECURSIVE RestoreFrom(_, _, _, _)
RestoreFrom(g, f, i, now) ==
    IF i > Len(LoadOrder)
    THEN [game |-> [g EXCEPT !.last_move_time = now], ret |-> TRUE]
    ELSE IF LoadOrder[i] \notin f.keys
         THEN [game |-> g, ret |-> FALSE]
         ELSE RestoreFrom([g EXCEPT ![LoadOrder[i]] = f.data[LoadOrder[i]]],
                          f, i + 1, now)

load_game(g, f, now) ==
    IF f.kind = "missing" THEN [game |-> g, ret |-> FALSE]
    ELSE IF f.kind = "corrupt" THEN [game |-> g, ret |-> FALSE]
    ELSE RestoreFrom(g, f, 1, now)

\* ------------------------------------------------------------------------
\* State. One process runs main(); in a network session there are two.
\*   game[p]    the Game object of process p
\*   ticks[p]   what pygame.time.get_ticks() returns in p
\*   file       the content of saved_game.json
\*   net[p]     the NetworkManager of p (main's variable network)
\*   wire[p]    the messages sent to p and not yet read by its recv
\*   events[p]  the pygame.USEREVENT events posted in p and not yet taken
\*   thr[p]     where the accept thread and the receive thread of p are
\*   cmd        the handler of main() that ran last, where, and what the
\*              Game or NetworkManager method it called returned
\* ------------------------------------------------------------------------
VARIABLES game, ticks, file, net, wire, events, thr, cmd

vars == <<game, ticks, file, net, wire, events, thr, cmd>>
netVars == <<net, wire, events, thr>>

Procs == {"p1", "p2"}
Peer(p) == IF p = "p1" THEN "p2" ELSE "p1"

Done(p, op, ret) == cmd' = [proc |-> p, op |-> op, ret |-> ret]

\* a millisecond passes in p
Tick(p) ==
    /\ ticks[p] < MaxTicks
    /\ ticks' = [ticks EXCEPT ![p] = @ + 1]
    /\ UNCHANGED <<game, file, netVars, cmd>>

\* ------------------------------------------------------------------------
\* NetworkManager.__init__, and main's network = None
\* ------------------------------------------------------------------------
\* socket is the listening socket of a host and the connected socket of a
\* joiner; connection is what accept returned; pending tells that a peer has
\* connected to the listening socket and accept has not returned it yet
NoNetwork ==
    [exists |-> FALSE, is_host |-> FALSE, connected |-> FALSE,
     running |-> FALSE, socket |-> "none", connection |-> "none",
     pending |-> FALSE]

NewNetwork(is_host) ==
    [exists |-> TRUE, is_host |-> is_host, connected |-> FALSE,
     running |-> TRUE, socket |-> "none", connection |-> "none",
     pending |-> FALSE]

\* ------------------------------------------------------------------------
\* NetworkManager.send_move and send_game_state: pickle.dumps, then sendall
\* on the connection (host) or the socket (joiner). sendall raises once the
\* peer has closed its end; the except clause then clears connected.
\* ------------------------------------------------------------------------
MoveMessage(row, col) == [type |-> "move", row |-> row, col |-> col]

StateMessage(g) ==
    [type |-> "state",
     board |-> g.board,
     current_player |-> g.current_player,
     game_over |-> g.game_over,
     winner |-> g.winner,
     last_move |-> g.last_move]

PeerClosed(p) ==
    net[Peer(p)].socket = "closed" \/ net[Peer(p)].connection = "closed"

\* the next values of <<net, wire>> when p sends msg
Sent(p, msg) ==
    IF ~net[p].connected THEN <<net, wire>>
    ELSE IF PeerClosed(p)
         THEN <<[net EXCEPT ![p].connected = FALSE], wire>>
         ELSE <<net, [wire EXCEPT ![Peer(p)] = Append(@, msg)]>>

\* ------------------------------------------------------------------------
\* main(): the handlers of the event loop. A handler runs within one
\* reading of the clock.
\* ------------------------------------------------------------------------
\* restart_button, and the 'R' key
Restart(p) ==
    /\ \E h \in reset(game[p], ticks[p], ticks[p]) :
         game' = [game EXCEPT ![p] = h]
    /\ Done(p, "reset", TRUE)
    /\ UNCHANGED <<ticks, file, netVars>>

\* mode_button: "Can't change mode in multiplayer"
ToggleMode(p) ==
    /\ IF game[p].multiplayer THEN UNCHANGED game
       ELSE \E h \in reset([game[p] EXCEPT !.vs_ai = ~game[p].vs_ai],
                           ticks[p], ticks[p]) :
              game' = [game EXCEPT ![p] = h]
    /\ Done(p, "mode", ~game[p].multiplayer)
    /\ UNCHANGED <<ticks, file, netVars>>

\* difficulty_button: "Can't change difficulty in multiplayer"
CycleDifficulty(p) ==
    /\ IF game[p].multiplayer THEN UNCHANGED game
       ELSE game' = [game EXCEPT ![p].difficulty =
                       IF @ = "Easy" THEN "Medium"
                       ELSE IF @ = "Medium" THEN "Hard" ELSE "Easy"]
    /\ Done(p, "difficulty", ~game[p].multiplayer)
    /\ UNCHANGED <<ticks, file, netVars>>

\* undo_button: "Can't undo in multiplayer"
UndoButton(p) ==
    /\ IF game[p].multiplayer
       THEN UNCHANGED game /\ Done(p, "undo", FALSE)
       ELSE \E o \in undo_move(game[p], ticks[p], ticks[p]) :
              /\ game' = [game EXCEPT ![p] = o.game]
              /\ Done(p, "undo", o.ret)
    /\ UNCHANGED <<ticks, file, netVars>>

\* the 'U' key
UndoKey(p) ==
    /\ \E o \in undo_move(game[p], ticks[p], ticks[p]) :
         /\ game' = [game EXCEPT ![p] = o.game]
         /\ Done(p, "undo", o.ret)
    /\ UNCHANGED <<ticks, file, netVars>>

\* save_button, and the 'S' key
Save(p) ==
    /\ file' = save_game(game[p])
    /\ Done(p, "save", TRUE)
    /\ UNCHANGED <<game, ticks, netVars>>

\* load_button: "Can't load in multiplayer"
LoadButton(p) ==
    /\ IF game[p].multiplayer
       THEN UNCHANGED game /\ Done(p, "load", FALSE)
       ELSE LET o == load_game(game[p], file, ticks[p])
            IN /\ game' = [game EXCEPT ![p] = o.game]
               /\ Done(p, "load", o.ret)
    /\ UNCHANGED <<ticks, file, netVars>>

\* the 'L' key
LoadKey(p) ==
    /\ LET o == load_game(game[p], file, ticks[p])
       IN /\ game' = [game EXCEPT ![p] = o.game]
          /\ Done(p, "load", o.ret)
    /\ UNCHANGED <<ticks, file, netVars>>

\* whether a board click is let through to place_piece
CanMove(g) ==
    IF g.multiplayer THEN g.current_player = g.player_color
    ELSE IF g.vs_ai THEN g.current_player # g.ai_player
    ELSE TRUE

\* a board click that places the stone and tells the peer nothing
LocalClick_silent(p, row, col) ==
    IF ~game[p].game_over /\ CanMove(game[p])
    THEN /\ \E o \in place_piece(game[p], row, col, ticks[p], ticks[p]) :
              /\ game' = [game EXCEPT ![p] = o.game]
              /\ Done(p, "place", o.ret)
         /\ UNCHANGED <<ticks, file, netVars>>
    ELSE /\ Done(p, "click", FALSE)
         /\ UNCHANGED <<game, ticks, file, netVars>>

\* a left click inside the board area and outside every button, converted
\* to (row, col): place_piece when the game is not over and the player may
\* move, and send_move when it returns True in a connected session; the
\* click does nothing otherwise
LocalClick(p, row, col) ==
    IF ~game[p].game_over /\ CanMove(game[p])
    THEN /\ \E o \in place_piece(game[p], row, col, ticks[p], ticks[p]) :
              /\ game' = [game EXCEPT ![p] = o.game]
              /\ Done(p, "place", o.ret)
              /\ IF o.ret /\ game[p].multiplayer /\ net[p].exists
                 THEN /\ net' = Sent(p, MoveMessage(row, col))[1]
                      /\ wire' = Sent(p, MoveMessage(row, col))[2]
                 ELSE UNCHANGED <<net, wire>>
         /\ UNCHANGED <<ticks, file, events, thr>>
    ELSE /\ Done(p, "click", FALSE)
         /\ UNCHANGED <<game, ticks, file, netVars>>

\* ------------------------------------------------------------------------
\* NetworkManager.close
\* ------------------------------------------------------------------------
close(n) ==
    [n EXCEPT !.running = FALSE,
              !.socket = IF @ = "none" THEN @ ELSE "closed",
              !.connection = IF @ = "none" THEN @ ELSE "closed",
              !.connected = FALSE]

\* ------------------------------------------------------------------------
\* main(): host_button and join_button. Both processes use port 5555 of
\* localhost: bind raises while the peer listens, connect raises unless it
\* does.
\* ------------------------------------------------------------------------
\* host_button: reset, NetworkManager(game, is_host=True), start_server
HostButton(p) ==
    IF game[p].multiplayer
    THEN /\ Done(p, "host", FALSE)
         /\ UNCHANGED <<game, ticks, file, netVars>>
    ELSE /\ \E h \in reset(game[p], ticks[p], ticks[p]) :
              IF net[Peer(p)].socket = "listening"
              THEN /\ game' = [game EXCEPT ![p] = h]
                   /\ net' = [net EXCEPT ![p] =
                                [NewNetwork(TRUE) EXCEPT !.socket = "unbound"]]
                   /\ Done(p, "host", FALSE)
                   /\ UNCHANGED thr
              ELSE /\ game' = [game EXCEPT ![p] =
                                 [h EXCEPT !.multiplayer = TRUE,
                                           !.is_host = TRUE,
                                           !.player_color = "BLACK"]]
                   /\ net' = [net EXCEPT ![p] =
                                [NewNetwork(TRUE) EXCEPT !.socket = "listening"]]
                   /\ thr' = [thr EXCEPT ![p].accept = "listening"]
                   /\ Done(p, "host", TRUE)
         /\ UNCHANGED <<ticks, file, wire, events>>

\* join_button: NetworkManager(game, is_host=False), connect_to_server; in
\* multiplayer it cancels a connected session: close, network = None,
\* multiplayer off, reset
JoinButton(p) ==
    IF ~game[p].multiplayer
    THEN /\ IF net[Peer(p)].socket = "listening"
            THEN /\ net' = [net EXCEPT
                              ![p] = [NewNetwork(FALSE) EXCEPT
                                        !.socket = "open", !.connected = TRUE],
                              ![Peer(p)].pending = TRUE]
                 /\ game' = [game EXCEPT ![p].multiplayer = TRUE,
                                         ![p].is_host = FALSE,
                                         ![p].player_color = "WHITE"]
                 /\ thr' = [thr EXCEPT ![p].receive = "running"]
                 /\ Done(p, "join", TRUE)
            ELSE /\ net' = [net EXCEPT ![p] =
                              [NewNetwork(FALSE) EXCEPT !.socket = "unbound"]]
                 /\ Done(p, "join", FALSE)
                 /\ UNCHANGED <<game, thr>>
         /\ UNCHANGED <<ticks, file, wire, events>>
    ELSE IF net[p].exists /\ net[p].connected
         THEN /\ net' = [net EXCEPT ![p] = [close(net[p]) EXCEPT !.exists = FALSE]]
              /\ \E h \in reset([game[p] EXCEPT !.multiplayer = FALSE],
                                ticks[p], ticks[p]) :
                   game' = [game EXCEPT ![p] = h]
              /\ Done(p, "cancel", TRUE)
              /\ UNCHANGED <<ticks, file, wire, events, thr>>
         ELSE /\ Done(p, "cancel", FALSE)
              /\ UNCHANGED <<game, ticks, file, netVars>>

\* ------------------------------------------------------------------------
\* NetworkManager.accept_connections, the accept thread of a host
\* ------------------------------------------------------------------------
\* accept returns the pending connection; connected is set and the receive
\* thread started
Accept(p) ==
    /\ thr[p].accept = "listening"
    /\ net[p].running /\ ~net[p].connected
    /\ net[p].socket = "listening" /\ net[p].pending
    /\ net' = [net EXCEPT ![p].connection = "open",
                          ![p].pending = FALSE,
                          ![p].connected = TRUE]
    /\ thr' = [thr EXCEPT ![p] = [accept |-> "accepted", receive |-> "running"]]
    /\ UNCHANGED <<game, ticks, file, wire, events, cmd>>

\* send_game_state, then the loop test: while running and not connected
SendInitialState(p) ==
    /\ thr[p].accept = "accepted"
    /\ net' = Sent(p, StateMessage(game[p]))[1]
    /\ wire' = Sent(p, StateMessage(game[p]))[2]
    /\ thr' = [thr EXCEPT ![p].accept =
                 IF net'[p].running /\ ~net'[p].connected
                 THEN "listening" ELSE "done"]
    /\ UNCHANGED <<game, ticks, file, events, cmd>>

\* ------------------------------------------------------------------------
\* NetworkManager.receive_data, the receive thread
\* ------------------------------------------------------------------------
\* the event posted for what pickle.loads returned
EventOf(msg) ==
    IF msg.type = "move"
    THEN [action |-> "network_move", row |-> msg.row, col |-> msg.col]
    ELSE [action |-> "update_game_state", state |-> msg]

\* a receive thread that applies a received move to the game itself
\* instead of posting it
RecvMessage_applies(p) ==
    /\ thr[p].receive = "running"
    /\ net[p].running /\ net[p].connected
    /\ wire[p] # <<>>
    /\ \E k \in {1, Len(wire[p])} :
         /\ IF wire[p][1].type = "move"
            THEN /\ \E o \in place_piece(game[p], wire[p][1].row,
                                         wire[p][1].col, ticks[p], ticks[p]) :
                      game' = [game EXCEPT ![p] = o.game]
                 /\ UNCHANGED events
            ELSE /\ events' = [events EXCEPT
                                 ![p] = Append(@, EventOf(wire[p][1]))]
                 /\ UNCHANGED game
         /\ wire' = [wire EXCEPT ![p] = SubSeq(@, k + 1, Len(@))]
    /\ UNCHANGED <<ticks, file, net, thr, cmd>>

\* recv(4096) returns the bytes of the first k messages that have arrived;
\* pickle.loads reads the first of them and ignores the bytes after it
RecvMessage(p) ==
    /\ thr[p].receive = "running"
    /\ net[p].running /\ net[p].connected
    /\ wire[p] # <<>>
    /\ \E k \in {1, Len(wire[p])} :
         /\ events' = [events EXCEPT ![p] = Append(@, EventOf(wire[p][1]))]
         /\ wire' = [wire EXCEPT ![p] = SubSeq(@, k + 1, Len(@))]
    /\ UNCHANGED <<game, ticks, file, net, thr, cmd>>

\* recv returns no data: "Connection closed by peer"
RecvClosed(p) ==
    /\ thr[p].receive = "running"
    /\ net[p].running /\ net[p].connected
    /\ wire[p] = <<>>
    /\ PeerClosed(p)
    /\ net' = [net EXCEPT ![p].connected = FALSE]
    /\ thr' = [thr EXCEPT ![p].receive = "done"]
    /\ UNCHANGED <<game, ticks, file, wire, events, cmd>>

\* the loop ends: running or connected was cleared
RecvExit(p) ==
    /\ thr[p].receive = "running"
    /\ ~(net[p].running /\ net[p].connected)
    /\ thr' = [thr EXCEPT ![p].receive = "done"]
    /\ UNCHANGED <<game, ticks, file, net, wire, events, cmd>>

\* ------------------------------------------------------------------------
\* main(): for event in pygame.event.get() with an event the receive thread
\* posted. No branch of the loop tests for pygame.USEREVENT: the event is
\* taken from the queue and nothing is done with it.
\* ------------------------------------------------------------------------
TakeEvent(p) ==
    /\ events[p] # <<>>
    /\ events' = [events EXCEPT ![p] = Tail(@)]
    /\ Done(p, "event", FALSE)
    /\ UNCHANGED <<game, ticks, file, net, wire, thr>>

\* ------------------------------------------------------------------------
\* The local game: one process, no network session
\* ------------------------------------------------------------------------
\* The cells clicked when n moves are recorded: the next cell of a game in
\* which Black fills row 7 and White row 8 from column 3 on, the first cell
\* of that game (occupied once played), and two cells off the board, which
\* a click on the margin of the board area is converted to.
ClickCells(n) ==
    {<<7 + (n % 2), 3 + (n \div 2)>>, <<7, 3>>, <<0 - 1, 7>>, <<7, BOARD_SIZE>>}

\* moves recorded before board clicks stop: MaxMoves without the AI,
\* MaxAiMoves against it
ClickBound(g) == IF g.vs_ai THEN MaxAiMoves ELSE MaxMoves

InitNet ==
    /\ net = [p \in Procs |-> NoNetwork]
    /\ wire = [p \in Procs |-> <<>>]
    /\ events = [p \in Procs |-> <<>>]
    /\ thr = [p \in Procs |-> [accept |-> "idle", receive |-> "idle"]]

Init ==
    /\ ticks = [p \in Procs |-> 1]
    /\ game = [p \in Procs |-> NewGame(1)]
    /\ file = MissingFile
    /\ InitNet
    /\ cmd = [proc |-> "p1", op |-> "init", ret |-> TRUE]

BoardClick(p) ==
    /\ Len(game[p].move_history) < ClickBound(game[p])
    /\ \E rc \in ClickCells(Len(game[p].move_history)) :
         LocalClick(p, rc[1], rc[2])

Next ==
    \/ BoardClick("p1")
    \/ Restart("p1")
    \/ ToggleMode("p1")
    \/ CycleDifficulty("p1")
    \/ UndoButton("p1")
    \/ UndoKey("p1")

Spec == Init /\ [][Next]_vars

\* ------------------------------------------------------------------------
\* The local game with saved_game.json: the file is written by save_game
\* and, between commands, removed, overwritten with text that is no JSON,
\* or left with one of its keys missing
\* ------------------------------------------------------------------------
\* the keys that go missing: the first, one in the middle and the last that
\* load_game reads
DroppedKeys == {"board", "winner", "move_history"}

FileDelete ==
    /\ file.kind # "missing"
    /\ file' = MissingFile
    /\ UNCHANGED <<game, ticks, netVars, cmd>>

FileCorrupt ==
    /\ file.kind = "json"
    /\ file' = CorruptFile
    /\ UNCHANGED <<game, ticks, netVars, cmd>>

FileDropKey ==
    /\ file.kind = "json"
    /\ file.keys = SavedKeys
    /\ \E k \in DroppedKeys : file' = [file EXCEPT !.keys = @ \ {k}]
    /\ UNCHANGED <<game, ticks, netVars, cmd>>

\* board clicks and saves while at most MaxSavedMoves moves are recorded
FileClick(p) ==
    /\ Len(game[p].move_history) <= MaxSavedMoves
    /\ \E rc \in ClickCells(Len(game[p].move_history)) :
         LocalClick(p, rc[1], rc[2])

SaveCommand(p) ==
    /\ Len(game[p].move_history) <= MaxSavedMoves
    /\ Save(p)

NextFile ==
    \/ FileClick("p1")
    \/ ToggleMode("p1")
    \/ SaveCommand("p1")
    \/ LoadButton("p1")
    \/ LoadKey("p1")
    \/ FileDelete
    \/ FileCorrupt
    \/ FileDropKey

SpecFile == Init /\ [][NextFile]_vars

\* ------------------------------------------------------------------------
\* A two-player game played to its end: with the AI switched off, Black
\* fills row 7 and White row 8 from column 3 on, until Black completes five
\* at (7, 7) with the ninth move; clicks on an occupied cell and off the
\* board come in between, the clock advances, and the finished game is undone
\* ------------------------------------------------------------------------
EndMoves == 9

EndClick(p) ==
    /\ ~game[p].vs_ai
    /\ Len(game[p].move_history) <= EndMoves
    /\ \E rc \in ClickCells(Len(game[p].move_history)) :
         LocalClick(p, rc[1], rc[2])

\* undo_button once the game is over
EndUndo(p) ==
    /\ game[p].game_over
    /\ UndoButton(p)

NextEnd ==
    \/ EndClick("p1")
    \/ EndUndo("p1")
    \/ ToggleMode("p1")
    \/ Restart("p1")
    \/ Tick("p1")

SpecEnd == Init /\ [][NextEnd]_vars

\* ------------------------------------------------------------------------
\* check_win on its own: boards with one line of LineLen cells, every cell
\* of it empty, Black or White, along each axis from the board edge and
\* from the interior; and boards with Black at (7, 7) and any of the two
\* cells on either side of it in its row and in its column
\* ------------------------------------------------------------------------
LineLen == 6

LineStarts ==
    {<<(<<0, 0>>), (<<0, 1>>)>>, <<(<<4, 5>>), (<<0, 1>>)>>,
     <<(<<0, 0>>), (<<1, 0>>)>>, <<(<<4, 5>>), (<<1, 0>>)>>,
     <<(<<0, 0>>), (<<1, 1>>)>>, <<(<<4, 5>>), (<<1, 1>>)>>,
     <<(<<0, 14>>), (<<1, -1>>)>>, <<(<<4, 9>>), (<<1, -1>>)>>}

\* the board whose i-th cell from start along d holds line[i]
LineBoard(start, d, line) ==
    [r \in Idx |-> [c \in Idx |->
        IF \E i \in 1 .. LineLen :
             r = start[1] + (i - 1) * d[1] /\ c = start[2] + (i - 1) * d[2]
        THEN line[CHOOSE i \in 1 .. LineLen :
                    r = start[1] + (i - 1) * d[1] /\ c = start[2] + (i - 1) * d[2]]
        ELSE None]]

CrossCells ==
    {<<7, 5>>, <<7, 6>>, <<7, 8>>, <<7, 9>>, <<5, 7>>, <<6, 7>>, <<8, 7>>, <<9, 7>>}

CrossBoard(black) ==
    [r \in Idx |-> [c \in Idx |->
        IF <<r, c>> = <<7, 7>> \/ <<r, c>> \in black THEN "BLACK" ELSE None]]

WinBoards(starts) ==
    {LineBoard(sd[1], sd[2], line) :
       sd \in starts, line \in [1 .. LineLen -> {None, "BLACK", "WHITE"}]}
    \union {CrossBoard(black) : black \in SUBSET CrossCells}

InitWin ==
    /\ ticks = [p \in Procs |-> 1]
    /\ \E b \in WinBoards(LineStarts) : game = [p \in Procs |-> [NewGame(1) EXCEPT !.board = b]]
    /\ file = MissingFile
    /\ InitNet
    /\ cmd = [proc |-> "p1", op |-> "init", ret |-> TRUE]

\* check_win(row, col) on an occupied cell of the board
CheckWin(p) ==
    /\ \E rc \in Stones(game[p].board) :
         cmd' = [proc |-> p, op |-> "check_win", row |-> rc[1], col |-> rc[2],
                 ret |-> check_win(game[p].board, rc[1], rc[2])]
    /\ UNCHANGED <<game, ticks, file, netVars>>

NextWin == CheckWin("p1")

SpecWin == InitWin /\ [][NextWin]_vars

\* ------------------------------------------------------------------------
\* Undo with nothing to undo: a two-player game of at most MaxSavedMoves
\* moves with undo, one save, load of the file whole or short of a key, the
\* mode button and the clock. The AI never has to move.
\* ------------------------------------------------------------------------
UndoClick(p) ==
    /\ ~game[p].vs_ai
    /\ FileClick(p)

\* save_button, once
UndoSave(p) ==
    /\ file.kind = "missing"
    /\ SaveCommand(p)

\* the clock moves on while no move is recorded
UndoTick(p) ==
    /\ Len(game[p].move_history) = 0
    /\ Tick(p)

NextUndo ==
    \/ UndoClick("p1")
    \/ ToggleMode("p1")
    \/ UndoSave("p1")
    \/ LoadKey("p1")
    \/ FileDropKey
    \/ UndoButton("p1")
    \/ UndoKey("p1")
    \/ UndoTick("p1")

SpecUndo == Init /\ [][NextUndo]_vars

\* ------------------------------------------------------------------------
\* The AI as Black: ai_player is 'WHITE' in every game the program starts
\* and is read from saved_game.json by load_game, so the AI plays Black
\* once a file that says so has been loaded: a file edited outside the
\* program. Restart, the mode button, undo and clicks follow, while fewer
\* than MaxFirstMoves moves are recorded.
\* ------------------------------------------------------------------------
MaxFirstMoves == 2

\* saved_game.json is edited: "ai_player": "BLACK"
FileAiBlack ==
    /\ file.kind = "json"
    /\ file.keys = SavedKeys
    /\ file.data.ai_player = "WHITE"
    /\ file' = [file EXCEPT !.data.ai_player = "BLACK"]
    /\ UNCHANGED <<game, ticks, netVars, cmd>>

\* save_button before the first move
FirstSave(p) ==
    /\ Len(game[p].move_history) = 0
    /\ file.kind = "missing"
    /\ Save(p)

FirstLoad(p) ==
    /\ file.kind = "json"
    /\ file.data.ai_player = "BLACK"
    /\ LoadKey(p)

FirstClick(p) ==
    /\ Len(game[p].move_history) < MaxFirstMoves
    /\ LET n == Len(game[p].move_history)
       IN LocalClick(p, 7 + (n % 2), 3 + (n \div 2))

FirstUndo(p) ==
    /\ Len(game[p].move_history) > 0
    /\ UndoKey(p)

NextFirst ==
    \/ FirstSave("p1")
    \/ FileAiBlack
    \/ FirstLoad("p1")
    \/ FirstClick("p1")
    \/ FirstUndo("p1")
    \/ Restart("p1")
    \/ ToggleMode("p1")

SpecFirst == Init /\ [][NextFirst]_vars

\* ------------------------------------------------------------------------
\* The last cell: two-player games played until the board is full. Black
\* and White fill the board in turn, each taking the cells of its colour
\* row by row, and no line of five stands on it before the last stone. In
\* p1 the last stone fills the board without a line; in p2, which plays
\* once the game of p1 is over, it completes a line of five in row 0.
\* ------------------------------------------------------------------------
\* stones in pairs, shifted by two from row to row: no run is longer than 2
PairsBoard ==
    [r \in Idx |-> [c \in Idx |->
        IF (c + 2 * r) % 4 < 2 THEN "BLACK" ELSE "WHITE"]]

\* the same with Black on (0,0) .. (0,4) and White on (0,5) and (14,0)
FourBoard ==
    [PairsBoard EXCEPT ![0][2] = "BLACK", ![0][3] = "BLACK",
                       ![0][5] = "WHITE", ![14][0] = "WHITE"]

\* the cells of a full board in the order played: Black's and White's cells
\* in turn, each row by row, and last at the end
PlayOrder(final, last) ==
    LET Of(player) ==
            SelectSeq(AllCells,
                      LAMBDA d : d # last /\ final[d[1]][d[2]] = player)
    IN [k \in 1 .. (BOARD_SIZE * BOARD_SIZE - 1) |->
          IF k % 2 = 1 THEN Of("BLACK")[(k + 1) \div 2]
          ELSE Of("WHITE")[k \div 2]] \o <<last>>

DrawOrder == PlayOrder(PairsBoard, <<0, 0>>)
WinOrder == PlayOrder(FourBoard, <<0, 4>>)
OrderOf(p) == IF p = "p1" THEN DrawOrder ELSE WinOrder

\* mode_button, to switch the AI off before the first move
FillMode(p) ==
    /\ game[p].vs_ai
    /\ p = "p2" => game["p1"].game_over
    /\ ToggleMode(p)

\* a click on the next cell of the order
FillClick(p) ==
    /\ ~game[p].vs_ai
    /\ LET n == Len(game[p].move_history)
       IN /\ n < BOARD_SIZE * BOARD_SIZE
          /\ LocalClick(p, OrderOf(p)[n + 1][1], OrderOf(p)[n + 1][2])

NextLast ==
    \/ \E p \in Procs : FillMode(p)
    \/ \E p \in Procs : FillClick(p)

SpecLast == Init /\ [][NextLast]_vars

\* ------------------------------------------------------------------------
\* A network session between two players with the AI switched off: p1
\* hosts; p2 joins, from a fresh game or from a local game of one move, and
\* may cancel; each clicks the next cell of the scripted game or its first
\* cell while fewer than MaxNetMoves moves are recorded on its side
\* ------------------------------------------------------------------------
MaxNetMoves == 2
\* a move is played while fewer than MaxInFlight messages and events wait
\* at the peer
MaxInFlight == 2

NetToggle(p) ==
    /\ ~game[p].multiplayer
    /\ net[p] = NoNetwork
    /\ ToggleMode(p)

NetHost(p) ==
    /\ net[p] = NoNetwork
    /\ ~game[p].vs_ai
    /\ HostButton(p)

NetJoin(p) ==
    /\ net[p].socket \in {"none", "unbound", "open"}
    /\ JoinButton(p)

\* the first move of a local two-player game, before any session
LocalFirstClick(p) ==
    /\ ~game[p].multiplayer /\ ~game[p].vs_ai
    /\ net[p] = NoNetwork
    /\ Len(game[p].move_history) = 0
    /\ LocalClick(p, 7, 3)

NetClick(p) ==
    /\ game[p].multiplayer
    /\ Len(game[p].move_history) < MaxNetMoves
    /\ Len(wire[Peer(p)]) + Len(events[Peer(p)]) < MaxInFlight
    /\ LET n == Len(game[p].move_history)
       IN \E c \in {<<7 + (n % 2), 3 + (n \div 2)>>, <<7, 3>>} :
            LocalClick(p, c[1], c[2])

NetUndoButton(p) ==
    /\ game[p].multiplayer
    /\ UndoButton(p)

NetUndoKey(p) ==
    /\ game[p].multiplayer
    /\ UndoKey(p)

NextNet ==
    \/ \E p \in Procs : NetToggle(p)
    \/ NetHost("p1")
    \/ LocalFirstClick("p2")
    \/ NetJoin("p2")
    \/ \E p \in Procs : NetClick(p)
    \/ NetUndoButton("p1")
    \/ NetUndoKey("p1")
    \/ Accept("p1")
    \/ SendInitialState("p1")
    \/ \E p \in Procs : RecvMessage(p)
    \/ \E p \in Procs : RecvClosed(p)
    \/ \E p \in Procs : RecvExit(p)
    \/ \E p \in Procs : TakeEvent(p)

SpecNet == Init /\ [][NextNet]_vars

\* ------------------------------------------------------------------------
\* A network session hosted from the vs-AI mode a game starts in: p1 picks
\* a difficulty and hosts and p2 joins and may cancel; p1 clicks the first
\* cell of the scripted game while fewer than MaxHostMoves moves are
\* recorded
\* ------------------------------------------------------------------------
MaxHostMoves == 2

AiDifficulty(p) ==
    /\ ~game[p].multiplayer
    /\ CycleDifficulty(p)

AiHost(p) ==
    /\ net[p] = NoNetwork
    /\ game[p].vs_ai
    /\ HostButton(p)

AiNetClick(p) ==
    /\ game[p].multiplayer
    /\ Len(game[p].move_history) < MaxHostMoves
    /\ Len(wire[Peer(p)]) + Len(events[Peer(p)]) < MaxInFlight
    /\ LocalClick(p, 7, 3)

NextNetAi ==
    \/ AiDifficulty("p1")
    \/ AiHost("p1")
    \/ NetJoin("p2")
    \/ AiNetClick("p1")
    \/ Accept("p1")
    \/ SendInitialState("p1")
    \/ \E p \in Procs : RecvMessage(p)
    \/ \E p \in Procs : RecvClosed(p)
    \/ \E p \in Procs : RecvExit(p)
    \/ \E p \in Procs : TakeEvent(p)

SpecNetAi == Init /\ [][NextNetAi]_vars

\* ------------------------------------------------------------------------
\* check_opponent_threat applied to boards: the boards hold one line of
\* LineLen cells, with every content, along each axis from a corner or an
\* edge and from the inside of the board, and the cell is an empty cell next
\* to a stone; the function is applied once to a board
\* ------------------------------------------------------------------------
ThreatStarts ==
    {<<(<<0, 0>>), (<<0, 1>>)>>, <<(<<4, 5>>), (<<1, 0>>)>>,
     <<(<<4, 9>>), (<<1, -1>>)>>}

InitThreat ==
    /\ ticks = [p \in Procs |-> 1]
    /\ \E b \in WinBoards(ThreatStarts) :
         game = [p \in Procs |-> [NewGame(1) EXCEPT !.board = b]]
    /\ file = MissingFile
    /\ InitNet
    /\ cmd = [proc |-> "p1", op |-> "init", ret |-> TRUE]

NextToStone(board, rc) ==
    \E s \in Stones(board) : Abs(s[1] - rc[1]) <= 1 /\ Abs(s[2] - rc[2]) <= 1

\* check_opponent_threat(row, col, opponent) as ai_move calls it
CheckThreat(p) ==
    /\ cmd.op = "init"
    /\ \E rc \in {m \in CellSet : game[p].board[m[1]][m[2]] = None
                                   /\ NextToStone(game[p].board, m)} :
         cmd' = [proc |-> p, op |-> "threat", row |-> rc[1], col |-> rc[2],
                 ret |-> check_opponent_threat(
                           game[p].board, game[p].current_player, rc[1], rc[2],
                           Opponent(game[p].current_player))]
    /\ UNCHANGED <<game, ticks, file, netVars>>

NextThreat == CheckThreat("p1")

SpecThreat == InitThreat /\ [][NextThreat]_vars

\* ------------------------------------------------------------------------
\* Sessions that end and begin again: p1 turns the AI off and hosts, p2
\* joins, cancels and joins again, p1 plays the scripted game, and the
\* threads run. p2 joins again once its receive thread and that of p1 have
\* ended and nothing sent or posted is left over from the connection before.
\* ------------------------------------------------------------------------
SessionMode(p) ==
    /\ game[p].vs_ai
    /\ NetToggle(p)

Rejoin(p) ==
    /\ ~net[p].exists /\ net[p].socket = "closed"
    /\ \A q \in Procs :
         thr[q].receive # "running" /\ wire[q] = <<>> /\ events[q] = <<>>
    /\ JoinButton(p)

NextSession ==
    \/ SessionMode("p1")
    \/ NetHost("p1")
    \/ NetJoin("p2")
    \/ Rejoin("p2")
    \/ NetClick("p1")
    \/ Accept("p1")
    \/ SendInitialState("p1")
    \/ \E p \in Procs : RecvMessage(p)
    \/ \E p \in Procs : RecvClosed(p)
    \/ \E p \in Procs : RecvExit(p)
    \/ \E p \in Procs : TakeEvent(p)

SpecSession == Init /\ [][NextSession]_vars

\* ------------------------------------------------------------------------
\* Sessions that are closed, with the threads scheduled fairly. A receive
\* thread waits in recv(4096); close() closes the socket from the event
\* loop. Whether that ends a recv already waiting depends on the platform:
\* on Linux the call goes on waiting until data or the end of the stream
\* arrives (RecvWake), elsewhere it raises (RecvRaise). Only what every
\* build does is scheduled fairly.
\* ------------------------------------------------------------------------
\* the host's join_button, reading "Cancel" while it hosts
HostCancel(p) ==
    /\ game[p].multiplayer /\ net[p].is_host
    /\ JoinButton(p)

\* recv returns in a closed session: with data, whose event is posted
\* before the loop test ends the thread, or with the end of the stream
RecvWake(p) ==
    /\ thr[p].receive = "running"
    /\ ~(net[p].running /\ net[p].connected)
    /\ IF wire[p] # <<>>
       THEN /\ \E k \in {1, Len(wire[p])} :
                 /\ events' = [events EXCEPT ![p] = Append(@, EventOf(wire[p][1]))]
                 /\ wire' = [wire EXCEPT ![p] = SubSeq(@, k + 1, Len(@))]
       ELSE /\ PeerClosed(p)
            /\ UNCHANGED <<wire, events>>
    /\ thr' = [thr EXCEPT ![p].receive = "done"]
    /\ UNCHANGED <<game, ticks, file, net, cmd>>

\* recv raises in a closed session with nothing to read
RecvRaise(p) ==
    /\ wire[p] = <<>> /\ ~PeerClosed(p)
    /\ RecvExit(p)

NextClose ==
    \/ SessionMode("p1")
    \/ NetHost("p1")
    \/ NetJoin("p2")
    \/ HostCancel("p1")
    \/ \E p \in Procs : NetClick(p)
    \/ Accept("p1")
    \/ SendInitialState("p1")
    \/ \E p \in Procs : RecvMessage(p)
    \/ \E p \in Procs : RecvClosed(p)
    \/ \E p \in Procs : RecvWake(p)
    \/ \E p \in Procs : RecvRaise(p)
    \/ \E p \in Procs : TakeEvent(p)

\* the threads and the event loop get to run; the buttons and the clicks
\* are up to the players
FairClose ==
    /\ WF_vars(Accept("p1"))
    /\ WF_vars(SendInitialState("p1"))
    /\ \A p \in Procs :
         /\ WF_vars(RecvMessage(p))
         /\ WF_vars(RecvClosed(p))
         /\ WF_vars(RecvWake(p))
         /\ WF_vars(TakeEvent(p))

SpecClose == Init /\ [][NextClose]_vars /\ FairClose

\* ------------------------------------------------------------------------
\* The session hosted from the vs-AI mode, with the accept thread running
\* send_game_state while the event loop is inside the handler of a click:
\* self.game is read by the one thread while the other changes it
\* ------------------------------------------------------------------------
\* the click is accepted and handled whole; the state message is built from
\* what the game holds at some moment of the handler, and the handler's
\* send_move comes after it
SendStateDuringClick(p, row, col) ==
    /\ thr[p].accept = "accepted"
    /\ net[p].connected /\ ~PeerClosed(p)
    /\ game[p].multiplayer
    /\ ~game[p].game_over /\ CanMove(game[p])
    /\ InBoard(row, col) /\ game[p].board[row][col] = None
    /\ \E o \in place_piece(game[p], row, col, ticks[p], ticks[p]) :
       \E v \in PlaceViews(game[p], row, col, ticks[p]) :
         /\ game' = [game EXCEPT ![p] = o.game]
         /\ wire' = [wire EXCEPT ![Peer(p)] =
                       @ \o <<StateMessage(v), MoveMessage(row, col)>>]
    /\ Done(p, "place", TRUE)
    /\ thr' = [thr EXCEPT ![p].accept = "done"]
    /\ UNCHANGED <<ticks, file, net, events>>

RaceClick(p) ==
    /\ Len(game[p].move_history) < MaxHostMoves
    /\ wire[Peer(p)] = <<>> /\ events[Peer(p)] = <<>>
    /\ SendStateDuringClick(p, 7, 3)

NextRace ==
    \/ AiDifficulty("p1")
    \/ AiHost("p1")
    \/ NetJoin("p2")
    \/ AiNetClick("p1")
    \/ RaceClick("p1")
    \/ Accept("p1")
    \/ SendInitialState("p1")
    \/ \E p \in Procs : RecvMessage(p)
    \/ \E p \in Procs : RecvClosed(p)
    \/ \E p \in Procs : RecvExit(p)
    \/ \E p \in Procs : TakeEvent(p)

SpecRace == Init /\ [][NextRace]_vars

\* ------------------------------------------------------------------------
\* Games against the AI: p1 picks a difficulty before the first move and
\* clicks the cells the human clicked in one of the games of AiGames, games
\* the program played (odd entries the clicks, even entries the answers of
\* ai_move); a click happens while the game so far is the beginning of one
\* of them
\* ------------------------------------------------------------------------
AiGames ==
    {
    <<
      <<7, 3>>, <<6, 3>>, <<5, 3>>, <<7, 2>>, <<6, 4>>, <<4, 2>>, <<8, 2>>,
      <<5, 5>>, <<9, 1>>, <<10, 0>>
    >>,
    <<
      <<7, 3>>, <<6, 3>>, <<7, 4>>, <<7, 2>>, <<6, 4>>, <<5, 4>>, <<5, 5>>,
      <<4, 6>>, <<8, 2>>, <<9, 1>>
    >>,
    <<
      <<7, 3>>, <<8, 3>>, <<9, 3>>, <<9, 2>>, <<6, 2>>, <<5, 1>>, <<8, 4>>,
      <<9, 5>>, <<7, 4>>, <<6, 4>>, <<7, 5>>, <<6, 6>>, <<7, 6>>, <<7, 2>>
    >>,
    <<
      <<7, 7>>, <<6, 7>>, <<8, 8>>, <<6, 6>>, <<9, 9>>, <<10, 10>>,
      <<7, 8>>, <<6, 8>>, <<8, 7>>, <<6, 9>>, <<7, 5>>, <<6, 5>>
    >>,
    <<
      <<7, 7>>, <<7, 6>>, <<8, 8>>, <<6, 6>>, <<9, 9>>, <<10, 10>>,
      <<8, 7>>, <<6, 7>>, <<7, 9>>, <<6, 10>>, <<8, 9>>, <<6, 9>>,
      <<8, 6>>, <<6, 8>>
    >>,
    <<
      <<7, 3>>, <<8, 3>>, <<6, 2>>, <<5, 1>>, <<6, 3>>, <<6, 1>>, <<5, 3>>,
      <<4, 3>>, <<8, 4>>, <<9, 5>>, <<6, 4>>, <<6, 5>>, <<8, 2>>, <<5, 5>>,
      <<4, 2>>, <<3, 1>>, <<5, 4>>, <<7, 4>>, <<5, 6>>, <<7, 5>>, <<5, 2>>,
      <<8, 5>>
    >>,
    <<
      <<7, 3>>, <<7, 4>>, <<6, 4>>, <<5, 5>>, <<5, 3>>, <<4, 2>>, <<7, 5>>,
      <<8, 6>>
    >>,
    <<
      <<7, 7>>, <<7, 8>>, <<8, 7>>, <<6, 7>>
    >>
    }

\* the cells of the moves made so far, in order
MovesMade(g) ==
    [i \in 1 .. Len(g.move_history) |->
       <<g.move_history[i].row, g.move_history[i].col>>]

AiOpening(p) ==
    /\ game[p].move_history = <<>>
    /\ CycleDifficulty(p)

AiClick(p) ==
    \E rec \in AiGames :
      LET n == Len(game[p].move_history)
      IN /\ n < Len(rec)
         /\ n % 2 = 0
         /\ SubSeq(rec, 1, n) = MovesMade(game[p])
         /\ LocalClick(p, rec[n + 1][1], rec[n + 1][2])

NextAi ==
    \/ AiOpening("p1")
    \/ AiClick("p1")

SpecAi == Init /\ [][NextAi]_vars

\* ------------------------------------------------------------------------
\* Claims
\* ------------------------------------------------------------------------
Local == game["p1"]
StoneCount(board) == Cardinality(Stones(board))

\* the fields of a game the claims compare
Position(g) ==
    <<g.board, g.current_player, g.game_over, g.winner, g.last_move>>

\* C1: in vs-AI mode outside multiplayer, after a successful undo the
\* player to move is the human, never the AI.
C1_UndoLeavesHumanToMove ==
    (cmd.op = "undo" /\ cmd.ret /\ Local.vs_ai /\ ~Local.multiplayer)
        => Local.current_player # Local.ai_player

\* C2: with vs_ai off and outside multiplayer, in every state whose game is
\* not over, place_piece on any empty cell of the board followed by
\* undo_move gives back the board, current_player, game_over, winner and
\* last_move of that state.
C2_PlaceThenUndoRestores ==
    (~Local.vs_ai /\ ~Local.multiplayer /\ ~Local.game_over) =>
        \A rc \in CellSet :
            Local.board[rc[1]][rc[2]] = None =>
                \A o \in place_piece(Local, rc[1], rc[2], ticks["p1"], ticks["p1"]) :
                    \A u \in undo_move(o.game, ticks["p1"], ticks["p1"]) :
                        o.ret /\ u.ret /\ Position(u.game) = Position(Local)

\* C3: between commands the length of move_history equals the number of
\* stones on the board.
C3_HistoryLengthIsStoneCount ==
    Len(Local.move_history) = StoneCount(Local.board)

\* C8: in vs-AI mode, after a board click that place_piece accepted, the
\* game is over or the human is to move: the AI has placed its stone.
C8_AiAlwaysReplies ==
    (cmd.op = "place" /\ cmd.ret /\ Local.vs_ai /\ ~Local.multiplayer)
        => (Local.game_over \/ Local.current_player # Local.ai_player)

\* C10: a load_game that returns False leaves the game as it was.
C10_FailedLoadChangesNothing ==
    LET o == load_game(Local, file, ticks["p1"])
    IN ~o.ret => o.game = Local

\* C6: place_piece on a game that is over, on a cell outside the board or
\* on an occupied cell returns False and leaves every field of the game as
\* it was, whatever the clock reads; so while game_over holds every
\* place_piece is rejected.
ClickRange == (0 - 1) .. BOARD_SIZE

C6_RejectedPlaceChangesNothing ==
    \A row \in ClickRange : \A col \in ClickRange :
        (Local.game_over \/ ~InBoard(row, col) \/ Local.board[row][col] # None)
            => place_piece(Local, row, col, ticks["p1"] + 1, ticks["p1"] + 1)
                 = {[game |-> Local, ret |-> FALSE]}

\* a rejected place_piece in a game under way, with time on Black's clock
C6_RejectedPlaceSeen ==
    /\ cmd.op = "place" /\ ~cmd.ret
    /\ Len(Local.move_history) >= 2
    /\ Local.player_times["BLACK"] > 0

\* C7: check_win on an occupied cell is true iff, on one of the four axes,
\* the unbroken run of that cell's colour through it has five cells or
\* more.
\* whether the cells from (row, col) to k steps along (dx, dy) are all on
\* the board and of the colour of (row, col)
Unbroken(board, row, col, dx, dy, k) ==
    \A j \in Min(0, k) .. Max(0, k) :
        /\ InBoard(row + j * dx, col + j * dy)
        /\ board[row + j * dx][col + j * dy] = board[row][col]

RunLength(board, row, col, a) ==
    Cardinality({k \in (1 - BOARD_SIZE) .. (BOARD_SIZE - 1) :
                   Unbroken(board, row, col, directions[a][1][1],
                            directions[a][1][2], k)})

C7_WinIffRunOfFive ==
    cmd.op = "check_win" =>
        (cmd.ret <=> \E a \in 1 .. 4 : RunLength(Local.board, cmd.row, cmd.col, a) >= 5)

\* check_win returned False on a run of exactly four that ends at the board
\* edge or at a stone of the other colour on both sides
C7_BlockedFourSeen ==
    /\ cmd.op = "check_win" /\ ~cmd.ret
    /\ \E a \in 1 .. 4 :
         LET dx == directions[a][1][1]
             dy == directions[a][1][2]
         IN /\ RunLength(Local.board, cmd.row, cmd.col, a) = 4
            /\ \A k \in ((1 - BOARD_SIZE) .. (BOARD_SIZE - 1)) \ {0} :
                 (/\ Unbroken(Local.board, cmd.row, cmd.col, dx, dy,
                              IF k > 0 THEN k - 1 ELSE k + 1)
                  /\ InBoard(cmd.row + k * dx, cmd.col + k * dy))
                     => Local.board[cmd.row + k * dx][cmd.col + k * dy] # None

\* C4: when the controller takes an event the receive thread posted, the
\* message is applied to the local game: a move puts a stone of the remote
\* colour on its cell (where a local move would be accepted), a full state
\* replaces board, current_player, game_over, winner and last_move.
EventApplied(p, e) ==
    IF e.action = "network_move"
    THEN (/\ ~game[p].game_over
          /\ InBoard(e.row, e.col)
          /\ game[p].board[e.row][e.col] = None)
            => game'[p].board[e.row][e.col] = Opponent(game[p].player_color)
    ELSE Position(game'[p]) =
            <<e.state.board, e.state.current_player, e.state.game_over,
              e.state.winner, e.state.last_move>>

C4_EventsAreApplied ==
    [][\A p \in Procs :
         (events[p] # <<>> /\ events'[p] = Tail(events[p]))
             => EventApplied(p, Head(events[p]))]_vars

\* C5: in a connected session, once the host has sent its state and no
\* message waits to be received or processed, both games agree on board,
\* current_player, game_over, winner and last_move.
C5_PeersAgree ==
    (/\ net["p1"].connected /\ net["p2"].connected
     /\ thr["p1"].accept = "done"
     /\ \A p \in Procs : wire[p] = <<>> /\ events[p] = <<>>)
        => Position(game["p1"]) = Position(game["p2"])

\* C9: while multiplayer is on, an undo command, from the button or the
\* keyboard, leaves the game as it is.
C9_NoUndoInMultiplayer ==
    [][\A p \in Procs :
         (game[p].multiplayer /\ cmd'.op = "undo" /\ cmd'.proc = p)
             => game'[p] = game[p]]_vars

\* C11: save_game in any state, then other commands, then load_game of that
\* file gives back the saved state in board, current_player, game_over,
\* winner, last_move, vs_ai, ai_player, difficulty, player_times and
\* move_history. The commands in between are stood for by the game the
\* load overwrites: the saved one or a new one.
SavedFields(g) == [k \in SavedKeys |-> g[k]]

C11_SaveThenLoadRestores ==
    \A g \in {Local, NewGame(ticks["p1"])} :
        LET o == load_game(g, save_game(Local), ticks["p1"])
        IN o.ret /\ SavedFields(o.game) = SavedFields(Local)
\* C12: only the main thread changes the game: a step of the accept thread
\* or of a receive thread leaves board, current_player, game_over, winner,
\* last_move and move_history, and every other field of the game, as they
\* were; such a step changes the network state and the posted events only.
ThreadStep ==
    \E p \in Procs :
        \/ Accept(p)
        \/ SendInitialState(p)
        \/ RecvMessage(p)
        \/ RecvClosed(p)
        \/ RecvExit(p)

C12_ThreadsLeaveGameAlone ==
    [][ThreadStep => (game' = game /\ file' = file)]_vars

\* a receive thread has posted the move its peer played
C12_MovePosted ==
    \E p \in Procs :
        /\ events[p] # <<>>
        /\ events[p][1].action = "network_move"
        /\ game[Peer(p)].board # EmptyBoard


\* C13: the state message a joiner receives first after joining carries
\* current_player BLACK, and the joiner's player_color is WHITE. The host
\* sends one state message per accepted connection, so the message is the
\* one waiting at the joiner, in flight or posted as an event.
StatesAt(p) ==
    {wire[p][i].current_player :
        i \in {j \in DOMAIN wire[p] : wire[p][j].type = "state"}}
    \cup
    {events[p][i].state.current_player :
        i \in {j \in DOMAIN events[p] :
                  events[p][j].action = "update_game_state"}}

C13_FirstStateIsBlackToMove ==
    \A p \in Procs :
        (game[p].multiplayer /\ ~game[p].is_host)
            => /\ game[p].player_color = "WHITE"
               /\ \A c \in StatesAt(p) : c = "BLACK"


\* C14: a host's player_color is BLACK and a joiner's is WHITE, and in
\* multiplayer a board click that puts stones on the board is made with
\* current_player equal to player_color and puts no stone of the other
\* colour there.
NewStones(p) ==
    {game'[p].board[c[1]][c[2]] :
        c \in {d \in CellSet :
                 game'[p].board[d[1]][d[2]] # game[p].board[d[1]][d[2]]}}

LocalColour ==
    \A p \in Procs :
        game[p].multiplayer
            => game[p].player_color = IF game[p].is_host THEN "BLACK" ELSE "WHITE"

C14_ClickPlacesOwnColour ==
    [][/\ LocalColour'
       /\ \A p \in Procs :
            (/\ game[p].multiplayer
             /\ cmd'.proc = p /\ cmd'.op = "place" /\ cmd'.ret
             /\ game'[p].board # game[p].board)
                => /\ game[p].current_player = game[p].player_color
                   /\ NewStones(p) = {game[p].player_color}]_vars


\* C15: in a connected session a board click that place_piece accepts sends
\* exactly one move message, with the row and column clicked, to the peer;
\* and a move message is sent by nothing but such a click, so a rejected
\* click sends none.
InSession(p) ==
    /\ game[p].multiplayer
    /\ net[p].exists /\ net[p].connected
    /\ ~PeerClosed(p)

\* the cells where the step put a stone of the player who was to move in p
ClickedCells(p) ==
    {d \in CellSet :
        /\ game[p].board[d[1]][d[2]] = None
        /\ game'[p].board[d[1]][d[2]] = game[p].current_player}

AcceptedClick(p) ==
    /\ cmd'.proc = p /\ cmd'.op = "place" /\ cmd'.ret
    /\ game'[p].board # game[p].board

MoveSent(p) ==
    /\ Len(wire'[Peer(p)]) > Len(wire[Peer(p)])
    /\ wire'[Peer(p)][Len(wire'[Peer(p)])].type = "move"

C15_OneMoveMessagePerPlacement ==
    [][\A p \in Procs :
        /\ (InSession(p) /\ AcceptedClick(p))
              => \E d \in ClickedCells(p) :
                    wire'[Peer(p)] =
                        Append(wire[Peer(p)], MoveMessage(d[1], d[2]))
        /\ MoveSent(p)
              => /\ AcceptedClick(p)
                 /\ \E d \in ClickedCells(p) :
                       wire'[Peer(p)] =
                           Append(wire[Peer(p)], MoveMessage(d[1], d[2]))]_vars

\* both peers are in the session; the move message of one peer's accepted
\* click is on its way, and the other peer has had a click rejected and
\* has sent nothing
C15_MoveSentOnce ==
    \E p \in Procs :
        /\ InSession(p) /\ InSession(Peer(p))
        /\ cmd = [proc |-> p, op |-> "place", ret |-> FALSE]
        /\ wire[Peer(p)] = <<>> /\ events[Peer(p)] = <<>>
        /\ \E i \in DOMAIN wire[p] :
              /\ wire[p][i].type = "move"
              /\ game[Peer(p)].board[wire[p][i].row][wire[p][i].col]
                    = game[Peer(p)].player_color


\* C16: the messages sent to a process reach its main thread one by one and
\* in the order sent: whenever messages leave the connection, it is the
\* oldest one alone that leaves, and its event is posted behind the events
\* already waiting; and an event leaves the queue only from its front.
C16_DeliveredOnceInOrder ==
    [][\A p \in Procs :
        /\ Len(wire'[p]) < Len(wire[p])
              => /\ wire'[p] = Tail(wire[p])
                 /\ events'[p] = Append(events[p], EventOf(Head(wire[p])))
        /\ events'[p] # events[p]
              => \/ /\ events[p] # <<>>
                    /\ events'[p] = Tail(events[p])
                 \/ /\ wire[p] # <<>>
                    /\ events'[p] = Append(events[p], EventOf(Head(wire[p])))]_vars


\* C17: with vs_ai off, after a board click that place_piece accepts for
\* player P on cell d: if the stone makes a run of five or more of P through
\* d, game_over is set, winner is P and current_player is still P; else if
\* no cell is empty, game_over is set and winner is None; else game_over
\* stays False and current_player becomes the other player.
Outcome(p) ==
    \A d \in ClickedCells(p) :
        LET P == game[p].current_player
            after == game'[p]
        IN IF \E a \in 1 .. 4 : RunLength(after.board, d[1], d[2], a) >= 5
           THEN /\ after.game_over /\ after.winner = P
                /\ after.current_player = P
           ELSE IF StoneCount(after.board) = BOARD_SIZE * BOARD_SIZE
                THEN after.game_over /\ after.winner = None
                ELSE /\ ~after.game_over /\ after.winner = None
                     /\ after.current_player = Opponent(P)

C17_OutcomeOfPlacement ==
    [][\A p \in Procs :
        (AcceptedClick(p) /\ ~game[p].vs_ai /\ ~game[p].game_over)
            => (ClickedCells(p) # {} /\ Outcome(p))]_vars

\* the last cell has been filled in both games: a draw in p1, and a win of
\* Black by the five it completed in p2
C17_LastCellSeen ==
    /\ cmd.op = "place" /\ cmd.ret
    /\ \A p \in Procs :
          /\ StoneCount(game[p].board) = BOARD_SIZE * BOARD_SIZE
          /\ game[p].game_over
    /\ game["p1"].winner = None
    /\ game["p2"].winner = "BLACK" /\ game["p2"].current_player = "BLACK"


\* C18: undo_move with an empty move_history returns False and leaves the
\* whole game, board, current_player, game_over, winner, last_move,
\* move_history and the times, as it was. A step that ends with the result
\* of an undo and changed that result or the game is a run of undo_move.
C18_UndoOfNothingChangesNothing ==
    [][(/\ cmd'.op = "undo"
        /\ ~Local.multiplayer
        /\ Len(Local.move_history) = 0
        /\ (cmd' # cmd \/ game' # game))
          => (~cmd'.ret /\ game' = game)]_vars

\* undo has failed on a game with stones on the board, left there by a
\* load that failed, with no move recorded and the clock past last_move_time
C18_UndoOfNothingSeen ==
    /\ cmd.op = "undo" /\ ~cmd.ret
    /\ Len(Local.move_history) = 0
    /\ Local.board # EmptyBoard
    /\ Local.last_move_time < ticks["p1"]


\* C19: after reset, and after an undo that empties move_history, every
\* cell is empty, move_history is empty, game_over is False, winner and
\* last_move are None, current_player is BLACK and both player_times are
\* zero; except that with vs_ai on and ai_player BLACK the AI has made one
\* move: one Black stone, one move recorded, White to move.
AfterReset(g) ==
    IF g.vs_ai /\ g.ai_player = "BLACK"
    THEN /\ StoneCount(g.board) = 1
         /\ \E d \in CellSet : g.board[d[1]][d[2]] = "BLACK"
         /\ Len(g.move_history) = 1
         /\ g.current_player = "WHITE"
         /\ ~g.game_over /\ g.winner = None
    ELSE /\ g.board = EmptyBoard
         /\ g.move_history = <<>>
         /\ ~g.game_over /\ g.winner = None /\ g.last_move = NoMove
         /\ g.current_player = "BLACK"
         /\ \A c \in Players : g.player_times[c] = 0

\* undo_move takes one move back, and the AI's move before it as well when
\* the AI plays and it is not the AI's turn
UndoEmpties(g) ==
    \/ Len(g.move_history) = 1
    \/ /\ Len(g.move_history) = 2
       /\ g.vs_ai /\ g.current_player # g.ai_player

C19_ResetGivesNewGame ==
    [][(\/ cmd'.op = "reset"
        \/ cmd'.op = "mode" /\ cmd'.ret
        \/ /\ cmd'.op = "undo" /\ cmd'.ret
           /\ (cmd' # cmd \/ game' # game)
           /\ UndoEmpties(Local))
          => AfterReset(Local')]_vars

\* C19 with the AI allowed to leave the board empty when it plays Black
AfterResetOrNoMove(g) ==
    \/ AfterReset(g)
    \/ AfterReset([g EXCEPT !.vs_ai = FALSE])

C19_ResetUpToAiMove ==
    [][(\/ cmd'.op = "reset"
        \/ cmd'.op = "mode" /\ cmd'.ret
        \/ /\ cmd'.op = "undo" /\ cmd'.ret
           /\ (cmd' # cmd \/ game' # game)
           /\ UndoEmpties(Local))
          => AfterResetOrNoMove(Local')]_vars


\* C20: in a local game, whatever clicks, undos and resets came before,
\* Black has as many stones on the board as White or one more, and while
\* the game is not over current_player is BLACK exactly when they have as
\* many: the first stone is Black's and no player places two in a row.
StonesOf(board, player) ==
    Cardinality({d \in CellSet : board[d[1]][d[2]] = player})

C20_StonesAlternate ==
    ~Local.multiplayer =>
        LET black == StonesOf(Local.board, "BLACK")
            white == StonesOf(Local.board, "WHITE")
        IN /\ black - white \in {0, 1}
           /\ ~Local.game_over => (Local.current_player = "BLACK" <=> black = white)

\* an undo has taken stones off the board and left some, in a game
\* against the AI
C20_UndoneSeen ==
    /\ cmd.op = "undo" /\ cmd.ret
    /\ Local.vs_ai
    /\ Len(Local.move_history) > 0
    /\ StoneCount(Local.board) > 0


\* C21: whenever the AI moves, the cell it chooses is on the board and was
\* empty, and its turn changes the board in that one cell, which gets the
\* AI's colour. The AI moves inside the place_piece of the click before it:
\* mid is the game as that click left it for ai_move.
AiPlaysOneEmptyCell(mid, after) ==
    /\ \A m \in ChosenMoves(mid) :
         m # NoMove => (InBoard(m[1], m[2]) /\ mid.board[m[1]][m[2]] = None)
    /\ \/ after.board = mid.board
       \/ \E m \in CellSet :
            /\ mid.board[m[1]][m[2]] = None
            /\ after.board = [mid.board EXCEPT ![m[1]][m[2]] = mid.ai_player]

C21_AiPlaysOneEmptyCell ==
    [][(AcceptedClick("p1") /\ Local.vs_ai /\ ~Local.multiplayer)
         => \A d \in ClickedCells("p1") :
              LET mid == ApplyMove(Local, d[1], d[2], ticks["p1"])
              IN (mid.current_player = mid.ai_player /\ ~mid.game_over)
                   => AiPlaysOneEmptyCell(mid, Local')]_vars

\* the AI has answered a click: two stones more than before are recorded
C21_AiReplySeen ==
    /\ cmd.op = "place" /\ cmd.ret
    /\ Local.vs_ai
    /\ Len(Local.move_history) >= 2
    /\ Local.move_history[Len(Local.move_history)].player = Local.ai_player
    /\ StonesOf(Local.board, Local.ai_player) >= 1

\* the games handed to ai_move in this step: the game as the accepted click
\* of the human left it, with the AI to move
AiTurns ==
    IF AcceptedClick("p1") /\ Local.vs_ai /\ ~Local.multiplayer
    THEN {mid \in {ApplyMove(Local, d[1], d[2], ticks["p1"]) :
                     d \in ClickedCells("p1")} :
            mid.current_player = mid.ai_player /\ ~mid.game_over}
    ELSE {}

\* the empty cells where a stone of who makes five in a row
WinningCells(board, who) ==
    {m \in CellSet :
       /\ board[m[1]][m[2]] = None
       /\ check_win([board EXCEPT ![m[1]][m[2]] = who], m[1], m[2])}

\* the first cell of a non-empty set of cells, reading the board row by row
RowMajorFirst(cells) ==
    CHOOSE m \in cells :
      \A n \in cells : m[1] * BOARD_SIZE + m[2] <= n[1] * BOARD_SIZE + n[2]

\* the board before the last recorded move, and who had to make it
BeforeLast(g) == g.move_history[Len(g.move_history)].board_state
LastMover(g) == g.move_history[Len(g.move_history)].player
LastCell(g) ==
    <<g.move_history[Len(g.move_history)].row,
      g.move_history[Len(g.move_history)].col>>

\* C22: when the AI has no cell that wins at once and its opponent has at
\* least one, the AI puts its stone on the first of the opponent's winning
\* cells in row-major order.
C22_BlocksFirstWinningCell ==
    [][\A mid \in AiTurns :
         LET opponent == Opponent(mid.ai_player)
         IN (/\ WinningCells(mid.board, mid.ai_player) = {}
             /\ WinningCells(mid.board, opponent) # {})
              => LET m == RowMajorFirst(WinningCells(mid.board, opponent))
                 IN Local'.board = [mid.board EXCEPT ![m[1]][m[2]] = mid.ai_player]]_vars

\* the AI has just blocked where its opponent had two winning cells and it
\* had none
C22_BlockedOneOfTwo ==
    /\ cmd.op = "place" /\ cmd.ret /\ Local.vs_ai
    /\ Len(Local.move_history) >= 2
    /\ LastMover(Local) = Local.ai_player
    /\ WinningCells(BeforeLast(Local), Local.ai_player) = {}
    /\ Cardinality(WinningCells(BeforeLast(Local), Opponent(Local.ai_player))) >= 2
    /\ LastCell(Local) \in WinningCells(BeforeLast(Local), Opponent(Local.ai_player))

\* C23: when at least one empty cell completes five for the AI, the AI plays
\* the first such cell in row-major order, whether or not its opponent has a
\* winning cell too, and the game is then over with the AI as winner.
C23_TakesFirstWinningCell ==
    [][\A mid \in AiTurns :
         WinningCells(mid.board, mid.ai_player) # {}
           => LET m == RowMajorFirst(WinningCells(mid.board, mid.ai_player))
              IN /\ Local'.board = [mid.board EXCEPT ![m[1]][m[2]] = mid.ai_player]
                 /\ Local'.game_over
                 /\ Local'.winner = mid.ai_player]_vars

\* the AI has just won on one of two winning cells
C23_WonOnOneOfTwo ==
    /\ cmd.op = "place" /\ cmd.ret /\ Local.vs_ai
    /\ Len(Local.move_history) >= 2
    /\ LastMover(Local) = Local.ai_player
    /\ Cardinality(WinningCells(BeforeLast(Local), Local.ai_player)) >= 2
    /\ Local.game_over /\ Local.winner = Local.ai_player

\* the AI has just won where its opponent had a winning cell earlier in
\* row-major order than any of the AI's
C23_WonBeforeBlocking ==
    /\ cmd.op = "place" /\ cmd.ret /\ Local.vs_ai
    /\ Len(Local.move_history) >= 2
    /\ LastMover(Local) = Local.ai_player
    /\ Local.game_over /\ Local.winner = Local.ai_player
    /\ \E b \in WinningCells(BeforeLast(Local), Opponent(Local.ai_player)) :
         b = RowMajorFirst(WinningCells(BeforeLast(Local), Local.ai_player) \union {b})

\* the empty cells whose threat score is the highest on the board, when that
\* is above 0
TopThreatCells(board, player) ==
    LET empty == {m \in CellSet : board[m[1]][m[2]] = None}
        score == [m \in empty |->
                    check_opponent_threat(board, player, m[1], m[2],
                                          Opponent(player))]
        found == {m \in empty : score[m] > 0}
    IN {m \in found : \A n \in found : score[m] >= score[n]}

ThreatCells(board, player) ==
    {m \in CellSet :
       /\ board[m[1]][m[2]] = None
       /\ check_opponent_threat(board, player, m[1], m[2], Opponent(player)) > 0}

\* C29: when neither side has a cell that wins at once and some empty cell
\* has a threat score above 0, the AI plays the cell with the highest threat
\* score, the first in row-major order among equals; the scores, the jitter
\* and the deadline of the last stage play no part.
C29_BlocksBiggestThreat ==
    [][\A mid \in AiTurns :
         (/\ WinningCells(mid.board, mid.ai_player) = {}
          /\ WinningCells(mid.board, Opponent(mid.ai_player)) = {}
          /\ TopThreatCells(mid.board, mid.ai_player) # {})
           => LET m == RowMajorFirst(TopThreatCells(mid.board, mid.ai_player))
              IN Local'.board = [mid.board EXCEPT ![m[1]][m[2]] = mid.ai_player]]_vars

\* the AI has just answered the biggest threat where a cell with a smaller
\* threat score came earlier in row-major order
C29_BlockedLaterBiggerThreat ==
    /\ cmd.op = "place" /\ cmd.ret /\ Local.vs_ai
    /\ Len(Local.move_history) >= 2
    /\ LastMover(Local) = Local.ai_player
    /\ WinningCells(BeforeLast(Local), Local.ai_player) = {}
    /\ WinningCells(BeforeLast(Local), Opponent(Local.ai_player)) = {}
    /\ LastCell(Local) \in TopThreatCells(BeforeLast(Local), Local.ai_player)
    /\ \E n \in ThreatCells(BeforeLast(Local), Local.ai_player) :
         /\ n \notin TopThreatCells(BeforeLast(Local), Local.ai_player)
         /\ n = RowMajorFirst({n, LastCell(Local)})

\* the AI has just answered one of two equal biggest threats
C29_BlockedFirstOfEqualThreats ==
    /\ cmd.op = "place" /\ cmd.ret /\ Local.vs_ai
    /\ Len(Local.move_history) >= 2
    /\ LastMover(Local) = Local.ai_player
    /\ WinningCells(BeforeLast(Local), Local.ai_player) = {}
    /\ WinningCells(BeforeLast(Local), Opponent(Local.ai_player)) = {}
    /\ Cardinality(TopThreatCells(BeforeLast(Local), Local.ai_player)) >= 2
    /\ LastCell(Local) \in TopThreatCells(BeforeLast(Local), Local.ai_player)

\* the opponent's stones that follow (row, col) without a gap in direction
\* (dx, dy), counted up to window cells away
SideRun(board, opponent, row, col, dx, dy, window) ==
    MaxOf({k \in 0 .. window :
             \A i \in 1 .. k :
                /\ InBoard(row + dx * i, col + dy * i)
                /\ board[row + dx * i][col + dy * i] = opponent})

\* the cell after those stones is on the board, empty and no more than
\* window cells away
SideOpen(board, opponent, row, col, dx, dy, window) ==
    LET k == SideRun(board, opponent, row, col, dx, dy, window)
    IN /\ k < window
       /\ InBoard(row + dx * (k + 1), col + dy * (k + 1))
       /\ board[row + dx * (k + 1)][col + dy * (k + 1)] = None

ThreatTable(run, open) ==
    IF run >= 4 /\ open >= 1 THEN 100
    ELSE IF run = 3 /\ open = 2 THEN 80
    ELSE IF run = 3 /\ open = 1 THEN 50
    ELSE IF run = 2 /\ open = 2 THEN 30
    ELSE 0

AxisThreat(board, opponent, row, col, a, window) ==
    LET d == directions[a][1]
        run == SideRun(board, opponent, row, col, d[1], d[2], window)
                 + SideRun(board, opponent, row, col, 0 - d[1], 0 - d[2], window)
        open == (IF SideOpen(board, opponent, row, col, d[1], d[2], window)
                 THEN 1 ELSE 0)
                  + (IF SideOpen(board, opponent, row, col, 0 - d[1], 0 - d[2], window)
                     THEN 1 ELSE 0)
    IN ThreatTable(run, open)

TableThreat(board, opponent, row, col, window) ==
    MaxOf({AxisThreat(board, opponent, row, col, a, window) : a \in 1 .. 4})

C30_ThreatIsTableOfScannedRuns ==
    cmd.op = "threat" =>
        cmd.ret = TableThreat(Local.board, Opponent(Local.current_player),
                              cmd.row, cmd.col, 4)

\* a threat score of 0 for a cell with four of the opponent's stones in a
\* row on one side and an empty cell after them
C30_OpenEndOutOfSight ==
    /\ cmd.op = "threat"
    /\ cmd.ret = 0
    /\ TableThreat(Local.board, Opponent(Local.current_player),
                   cmd.row, cmd.col, BOARD_SIZE) = 100

\* every score of the table has been given to some cell
C30_Scored100 == cmd.op = "threat" /\ cmd.ret = 100
C30_Scored80 == cmd.op = "threat" /\ cmd.ret = 80
C30_Scored50 == cmd.op = "threat" /\ cmd.ret = 50
C30_Scored30 == cmd.op = "threat" /\ cmd.ret = 30

\* the stage ai_move stops at for game g
AiStage(g) ==
    LET valid_moves == ValidMoves(g.board)
        opponent == Opponent(g.current_player)
    IN IF Len(valid_moves) = 0 THEN 0
       ELSE IF FirstWinning(g.board, valid_moves, g.current_player) # NoMove THEN 1
       ELSE IF FirstWinning(g.board, valid_moves, opponent) # NoMove THEN 2
       ELSE IF BiggestThreat(g.board, g.current_player, valid_moves, opponent) # NoMove
            THEN 3
       ELSE 4

\* every call the evaluator gets from ai_move on game g returns with the
\* board and the player to move as they were at the call
EvaluatorReverts(g) ==
    LET empty == {m \in CellSet : g.board[m[1]][m[2]] = None}
        stage == AiStage(g)
        opponent == Opponent(g.current_player)
        moves == Candidates(g.board, ValidMoves(g.board), opponent, g.difficulty)
    IN /\ stage >= 1 =>
            \A m \in empty : TrialLeaves(g.board, g.current_player, m[1], m[2]) = g.board
       /\ stage >= 2 =>
            \A m \in empty : TrialLeaves(g.board, opponent, m[1], m[2]) = g.board
       /\ stage >= 3 =>
            \A m \in empty :
               check_opponent_threat_leaves(g.board, g.current_player, m[1], m[2])
                 = g.board
       /\ stage >= 4 =>
            \A i \in 1 .. Len(moves) :
               evaluate_move_leaves(g.board, g.current_player, moves[i][1],
                                    moves[i][2], Depth(g.difficulty))
                 = [board |-> g.board, current_player |-> g.current_player]

\* C28: every stone the evaluator sets for a trial and every swap of the
\* player it makes is undone when the call returns: after evaluate_move, at
\* any depth and also when the loop over the replies is left early, and
\* after check_opponent_threat the board and the player to move are as at
\* the call, and the trial stones of the first two stages of ai_move are
\* removed before the next cell is tried or the move is made.
C28_EvaluatorReverts ==
    [][\A mid \in AiTurns : EvaluatorReverts(mid)]_vars

\* a reply scoring above 500 ends the loop over the replies of a candidate
LeavesEarly(g) ==
    \E i \in 1 .. Len(Candidates(g.board, ValidMoves(g.board),
                                 Opponent(g.current_player), g.difficulty)) :
      LET m == Candidates(g.board, ValidMoves(g.board),
                          Opponent(g.current_player), g.difficulty)[i]
          placed == [g.board EXCEPT ![m[1]][m[2]] = g.current_player]
          replies == SortByCentre(placed, 15)
      IN \E j \in 1 .. Len(replies) - 1 :
            evaluate_move(placed, Opponent(g.current_player),
                          replies[j][1], replies[j][2], 0) > 500

\* the game as ai_move got it before the last recorded move
MidOfLast(g) ==
    [g EXCEPT !.board = BeforeLast(g), !.current_player = LastMover(g)]

\* the AI has just moved after a search with look-ahead in which the loop
\* over the replies was left early
C28_SearchedWithEarlyExit ==
    /\ cmd.op = "place" /\ cmd.ret /\ Local.vs_ai
    /\ Len(Local.move_history) >= 2
    /\ LastMover(Local) = Local.ai_player
    /\ Depth(Local.difficulty) > 0
    /\ AiStage(MidOfLast(Local)) = 4
    /\ LeavesEarly(MidOfLast(Local))

\* the AI has just moved after trial stones of its third stage
C28_ScoredThreats ==
    /\ cmd.op = "place" /\ cmd.ret /\ Local.vs_ai
    /\ Len(Local.move_history) >= 2
    /\ LastMover(Local) = Local.ai_player
    /\ AiStage(MidOfLast(Local)) = 3

StateSent(p) ==
    /\ Len(wire'[Peer(p)]) > Len(wire[Peer(p)])
    /\ wire'[Peer(p)][Len(wire'[Peer(p)])].type = "state"

\* C25: the host sends its state right after accepting, and that message is
\* the first it sends on the connection: a move message of the host is sent
\* only once the accept thread has sent the state, whatever the order in
\* which the accept thread and the event loop run; and the state is sent by
\* the accept thread, after an accept, and by nothing else.
C25_StateIsFirstMessage ==
    [][/\ MoveSent("p1") => thr["p1"].accept = "done"
       /\ StateSent("p1") => (thr["p1"].accept = "accepted"
                               /\ thr'["p1"].accept = "done")]_vars

\* the host's move message is on its way and the state message behind it
C25_MoveAheadOfState ==
    /\ Len(wire["p2"]) = 2
    /\ wire["p2"][1].type = "move"
    /\ wire["p2"][2].type = "state"

\* a NetworkManager that has been connected: accept returned a connection to
\* the host, connect_to_server gave the joiner its socket
WasConnected(n) ==
    /\ n.exists
    /\ IF n.is_host THEN n.connection # "none" ELSE n.socket \in {"open", "closed"}

\* the step is the button of p that makes a new NetworkManager
NewSession(p) ==
    /\ cmd' # cmd
    /\ cmd'.proc = p
    /\ cmd'.op \in {"host", "join"}

\* C26: once connected has gone from true to false in a session it never
\* becomes true again in that session: the accept thread accepts one
\* connection at most and nothing connects again.
C26_NoReconnect ==
    [][\A p \in Procs :
         (WasConnected(net[p]) /\ ~net[p].connected /\ ~NewSession(p))
            => ~net'[p].connected]_vars

\* close() has been called on the NetworkManager of p
Closed(p) == ~net[p].running /\ net[p].socket = "closed"

ThreadsEnded(p) ==
    /\ thr[p].accept \in {"idle", "done"}
    /\ thr[p].receive \in {"idle", "done"}

\* C27: after close() on a network session the accept loop and the receive
\* loop of that session each end at some time, the threads being scheduled
\* fairly.
C27_ThreadsEndAfterClose ==
    \A p \in Procs : Closed(p) ~> ThreadsEnded(p)

\* the accept thread of a closed session ends
C27_AcceptLoopEnds ==
    \A p \in Procs : Closed(p) ~> (thr[p].accept \in {"idle", "done"})

\* a session closed while its accept thread had yet to send the state
C27_ClosedBeforeStateSent ==
    Closed("p1") /\ thr["p1"].accept = "accepted"

\* the state messages the step sends from p
StatesSent(p) ==
    {wire'[Peer(p)][i] :
       i \in {j \in Len(wire[Peer(p)]) + 1 .. Len(wire'[Peer(p)]) :
                wire'[Peer(p)][j].type = "state"}}

MessagePosition(m) ==
    <<m.board, m.current_player, m.game_over, m.winner, m.last_move>>

\* C24: every state message the host sends holds the board, current_player,
\* game_over, winner and last_move of one state of the game between two
\* commands of the event loop, the one before or the one after the step
\* that sends it: never a stone set for a trial by the AI's search, nor the
\* player swapped by it, while the search runs in the event loop's thread
\* and the accept thread builds the message.
C24_StateMessageIsCommitted ==
    [][\A m \in StatesSent("p1") :
         MessagePosition(m) \in {Position(game["p1"]), Position(game'["p1"])}]_vars

\* a state message on its way that holds more stones than the host's game
C24_TrialStoneSent ==
    \E i \in DOMAIN wire["p2"] :
       /\ wire["p2"][i].type = "state"
       /\ StoneCount(wire["p2"][i].board) > StoneCount(game["p1"].board)

\* ------------------------------------------------------------------------
\* The local game and its clock. pygame.time.get_ticks() gives the
\* milliseconds since pygame.init() as an integer: it reads 0 during the
\* first millisecond, and Game.__init__ or reset may read it then. The
\* clock moves on between the handlers, and between the click of the human
\* and the call of place_piece the AI makes after its search.
\* ------------------------------------------------------------------------
InitClock ==
    /\ \E now \in {0, 1} :
         /\ ticks = [p \in Procs |-> now]
         /\ game = [p \in Procs |-> NewGame(now)]
    /\ file = MissingFile
    /\ InitNet
    /\ cmd = [proc |-> "p1", op |-> "init", ret |-> TRUE]

\* a board click: place_piece reads the clock as it is, the AI after its
\* search reads it as it is then
ClockClick(p) ==
    /\ Len(game[p].move_history) < ClickBound(game[p])
    /\ \E rc \in ClickCells(Len(game[p].move_history)) :
       \E later \in {ticks[p], Min(ticks[p] + 1, MaxTicks)} :
         /\ later # ticks[p] => game[p].vs_ai
         /\ IF ~game[p].game_over /\ CanMove(game[p])
            THEN \E o \in place_piece(game[p], rc[1], rc[2], ticks[p], later) :
                   /\ game' = [game EXCEPT ![p] = o.game]
                   /\ Done(p, "place", o.ret)
                   /\ ticks' = IF o.ret THEN [ticks EXCEPT ![p] = later] ELSE ticks
            ELSE /\ Done(p, "click", FALSE)
                 /\ UNCHANGED <<game, ticks>>
    /\ UNCHANGED <<file, netVars>>

NextClock ==
    \/ ClockClick("p1")
    \/ Tick("p1")
    \/ ToggleMode("p1")
    \/ Restart("p1")
    \/ UndoButton("p1")

SpecClock == InitClock /\ [][NextClock]_vars

\* ------------------------------------------------------------------------
\* The two-player game of SpecEnd with undo at any time: a move is undone
\* while the game is under way as well as after Black's five, and the game
\* goes on from what undo_move restored
\* ------------------------------------------------------------------------
NextOutcome ==
    \/ EndClick("p1")
    \/ UndoButton("p1")
    \/ ToggleMode("p1")
    \/ Restart("p1")

SpecOutcome == Init /\ [][NextOutcome]_vars

\* ------------------------------------------------------------------------
\* The proximity bonus as the specification states it: for the nearest
\* opposing stone the distance part, doubled at distance 1 or less, plus
\* weight * 3 for every opposing stone within distance 2; the weight is
\* taken from the stones on the board the evaluator reads
\* ------------------------------------------------------------------------
StatedBonus(board, opponent, row, col) ==
    LET stones == Stones(board)
        weight == Max(50 - 5 * Cardinality(stones), 10)
        pieces == {rc \in stones : board[rc[1]][rc[2]] = opponent}
        near == {rc \in pieces : Distance(row, col, rc) <= 2}
    IN IF pieces = {} THEN 0
       ELSE LET d == MinOf({Distance(row, col, rc) : rc \in pieces})
                nearest == weight * (15 - Min(d, 15))
            IN (IF d <= 1 THEN nearest * 2 ELSE nearest)
               + weight * 3 * Cardinality(near)

\* the candidates the last stage of ai_move scores on game g, each with the
\* board evaluate_position reads: the board of g and the trial stone
ScoredBoards(g) ==
    LET moves == Candidates(g.board, ValidMoves(g.board),
                            Opponent(g.current_player), g.difficulty)
    IN {<<[g.board EXCEPT ![moves[i][1]][moves[i][2]] = g.current_player],
          moves[i]>> : i \in 1 .. Len(moves)}

\* C31: for every candidate the last stage of ai_move scores, the proximity
\* bonus evaluate_position adds is the distance part for the nearest
\* opposing stone, doubled at distance 1 or less, plus weight * 3 for each
\* opposing stone within distance 2.
C31_BonusCountsNearStones ==
    [][\A mid \in AiTurns :
         AiStage(mid) = 4 =>
           \A s \in ScoredBoards(mid) :
              ProximityScore(s[1], Opponent(mid.current_player), s[2][1], s[2][2])
                = StatedBonus(s[1], Opponent(mid.current_player), s[2][1], s[2][2])]_vars

\* without the part for the stones within distance 2 the bonus is the one
\* the code adds
C31_BonusIsNearestStoneOnly ==
    [][\A mid \in AiTurns :
         AiStage(mid) = 4 =>
           \A s \in ScoredBoards(mid) :
              LET opponent == Opponent(mid.current_player)
                  near == {rc \in Stones(s[1]) :
                             /\ s[1][rc[1]][rc[2]] = opponent
                             /\ Distance(s[2][1], s[2][2], rc) <= 2}
                  weight == Max(50 - 5 * Cardinality(Stones(s[1])), 10)
              IN ProximityScore(s[1], opponent, s[2][1], s[2][2])
                   = StatedBonus(s[1], opponent, s[2][1], s[2][2])
                       - weight * 3 * Cardinality(near)]_vars

\* ------------------------------------------------------------------------
\* The time of the players
\* ------------------------------------------------------------------------
\* the step is a handler of p1 that recorded grown moves more
HistoryGrew(grown) ==
    Len(Local'.move_history) = Len(Local.move_history) + grown

\* what one accepted place_piece of who at time now does to the times of
\* game g, giving h: the time since last_move_time is added when add is
\* TRUE, the other player's time stays, and last_move_time becomes now
TurnTimed(g, h, who, now, add) ==
    /\ h.player_times[who] =
         g.player_times[who] + (IF add THEN now - g.last_move_time ELSE 0)
    /\ h.player_times[Opponent(who)] = g.player_times[Opponent(who)]
    /\ h.last_move_time = now

\* the times after the accepted moves of a click: the move of the player
\* to move at the clock of the click and, when the AI answered, the move of
\* the AI at the clock after its search; adds(t) tells whether a move made
\* with last_move_time = t adds its time
ClickTimed(adds(_)) ==
    LET who == Local.current_player
        now == ticks["p1"]
    IN /\ HistoryGrew(1) => TurnTimed(Local, Local', who, now,
                                      adds(Local.last_move_time))
       /\ HistoryGrew(2) =>
            \E mid \in AiTurns :
               /\ TurnTimed(Local, mid, who, now, adds(Local.last_move_time))
               /\ TurnTimed(mid, Local', Opponent(who), ticks'["p1"], adds(now))

\* a click that was rejected, and an undo that left moves recorded
TimesKept ==
    (\/ cmd'.op \in {"place", "click"} /\ ~cmd'.ret
     \/ cmd'.op = "undo" /\ Len(Local'.move_history) > 0)
      => Local'.player_times = Local.player_times

Always(t) == TRUE
WhenSet(t) == t > 0

\* C33: every accepted place_piece at time now adds now - last_move_time to
\* the time of the player who moved, whatever last_move_time is, 0 included,
\* adds nothing to the other player's time and sets last_move_time to now;
\* a rejected click and an undo that leaves moves recorded change neither
\* player's time.
C33_MoveAddsTurnTime ==
    [][(AcceptedClick("p1") => ClickTimed(Always)) /\ TimesKept]_vars

\* the same with the time added only when last_move_time is above 0: what
\* the code does
C33_MoveAddsTurnTimeWhenSet ==
    [][(AcceptedClick("p1") => ClickTimed(WhenSet)) /\ TimesKept]_vars

\* an undo left moves recorded
C33_UndoKeptMoves ==
    cmd.op = "undo" /\ cmd.ret /\ Len(Local.move_history) > 0

\* ------------------------------------------------------------------------
\* Who places the stones of a network session
\* ------------------------------------------------------------------------
\* the cells of p's board that get a stone in this step
NewStoneCells(p) ==
    {d \in CellSet : /\ game[p].board[d[1]][d[2]] = None
                     /\ game'[p].board[d[1]][d[2]] # None}

\* the stone on d is the one the local player of p put there with a click
PlacedByLocalPlayer(p, d) ==
    /\ cmd'.proc = p /\ cmd'.op = "place" /\ cmd'.ret
    /\ game'[p].board[d[1]][d[2]] = game[p].player_color

\* the stone on d is the one a move message of the peer asked for, the
\* event of which p takes in this step
PlacedByRemoteMove(p, d) ==
    /\ events[p] # <<>> /\ events'[p] = Tail(events[p])
    /\ Head(events[p]).action = "network_move"
    /\ <<Head(events[p]).row, Head(events[p]).col>> = d
    /\ game'[p].board[d[1]][d[2]] = Opponent(game[p].player_color)

\* C34: while multiplayer is on, every stone that appears on a peer's
\* board was put there by the click of that peer's local player or by a move
\* message of the remote peer; the AI places none, whether or not vs_ai was
\* on when the session was started.
C34_NoAiStoneInSession ==
    [][\A p \in Procs :
         game[p].multiplayer =>
           \A d \in NewStoneCells(p) :
              PlacedByLocalPlayer(p, d) \/ PlacedByRemoteMove(p, d)]_vars

\* a session hosted with vs_ai off: the host's click puts the host's stone
\* on the board and no other
C34_HostMovedWithoutAi ==
    /\ game["p1"].multiplayer /\ ~game["p1"].vs_ai
    /\ StoneCount(game["p1"].board) = 1

\* ------------------------------------------------------------------------
\* The outcome recorded and the board
\* ------------------------------------------------------------------------
\* the five cells from start along axis a all hold a stone of who
FiveFrom(board, who, start, a) ==
    \A j \in 0 .. 4 :
       LET r == start[1] + j * directions[a][1][1]
           c == start[2] + j * directions[a][1][2]
       IN InBoard(r, c) /\ board[r][c] = who

\* some line of five stones of who is on the board
HasFive(board, who) ==
    \E start \in Stones(board) : \E a \in 1 .. 4 : FiveFrom(board, who, start, a)

\* some line of five stones of who covers the cell
HasFiveThrough(board, who, cell) ==
    \E a \in 1 .. 4 : \E k \in 0 .. 4 :
       LET r == cell[1] - k * directions[a][1][1]
           c == cell[2] - k * directions[a][1][2]
       IN InBoard(r, c) /\ FiveFrom(board, who, <<r, c>>, a)

OutcomeMatchesBoard(g) ==
    /\ g.winner # None =>
         /\ g.game_over
         /\ g.last_move # NoMove
         /\ HasFiveThrough(g.board, g.winner, <<g.last_move[2], g.last_move[3]>>)
    /\ (g.game_over /\ g.winner = None) => IsFull(g.board)
    /\ ~g.game_over => \A who \in Players : ~HasFive(g.board, who)

UndoClearsOutcome ==
    (cmd'.op = "undo" /\ cmd'.ret) => (~Local'.game_over /\ Local'.winner = None)

C35_WonAfterUndo ==
    /\ cmd.op = "place" /\ cmd.ret
    /\ Local.winner = "BLACK" /\ Local.game_over
    /\ StoneCount(Local.board) < Len(Local.move_history)

\* ------------------------------------------------------------------------
\* Cancelling a network session
\* ------------------------------------------------------------------------
\* the step is the handler op of p
Handled(p, op) == cmd' # cmd /\ cmd'.proc = p /\ cmd'.op = op

\* the session of p is over after the step: multiplayer is off, the
\* NetworkManager is closed and dropped, and the game is a new one
SessionEnded(p) ==
    /\ ~game'[p].multiplayer
    /\ ~net'[p].exists /\ ~net'[p].running /\ ~net'[p].connected
    /\ game'[p].board = EmptyBoard /\ game'[p].move_history = <<>>
    /\ game'[p].current_player = "BLACK" /\ ~game'[p].game_over

\* a host_button or join_button whose start_server or connect_to_server
\* returned False leaves multiplayer off
FailedStartStaysLocal(p) ==
    ((Handled(p, "host") \/ Handled(p, "join")) /\ ~game[p].multiplayer /\ ~cmd'.ret)
        => ~game'[p].multiplayer

\* C36: in every state with multiplayer on, whether the host still waits
\* for a joiner, the session is connected or the connection was lost, the
\* cancel command turns multiplayer off, closes the session and resets the
\* game; and a host or join command that fails leaves multiplayer off.
C36_CancelEndsSession ==
    [][\A p \in Procs :
         /\ (game[p].multiplayer /\ Handled(p, "cancel")) => SessionEnded(p)
         /\ FailedStartStaysLocal(p)]_vars

\* the same for the cancel of a session that is connected
C36_CancelEndsConnectedSession ==
    [][\A p \in Procs :
         /\ (game[p].multiplayer /\ net[p].exists /\ net[p].connected
             /\ Handled(p, "cancel")) => SessionEnded(p)
         /\ FailedStartStaysLocal(p)]_vars

\* a connected session was cancelled, and a join failed
C36_ConnectedSessionCancelled ==
    cmd.op = "cancel" /\ cmd.ret /\ ~game[cmd.proc].multiplayer

C36_JoinFailed ==
    cmd.op = "join" /\ ~cmd.ret /\ ~game[cmd.proc].multiplayer

\* ------------------------------------------------------------------------
\* The look-ahead of evaluate_move
\* ------------------------------------------------------------------------
\* the score as the specification states it for a look-ahead of one move:
\* the replies of the opponent are the candidate list the last stage of
\* ai_move would make for the opponent on the board with the trial stone,
\* cut to 15 cells, 20 on Hard, and sorted by the distance to the stones
\* opposing the opponent while at most 4 stones are on the board and by the
\* distance to the centre afterwards
StatedScore(board, player, row, col, difficulty) ==
    LET placed == [board EXCEPT ![row][col] = player]
    IN IF check_win(placed, row, col) THEN 1000
       ELSE LET replies == Candidates(placed, ValidMoves(placed), player,
                                      difficulty)
                reply == ResponseLoop(placed, Opponent(player), replies, 1, 0,
                                      FALSE, 0)
            IN evaluate_position(placed, player, row, col)
                 - (IF reply[1] THEN reply[2] ELSE 0)

\* the candidates of the last stage of ai_move on game g
StageCandidates(g) ==
    LET moves == Candidates(g.board, ValidMoves(g.board),
                            Opponent(g.current_player), g.difficulty)
    IN {moves[i] : i \in 1 .. Len(moves)}

\* C32: with a look-ahead, the score of a candidate that does not win at
\* once is its positional score minus the best score among the opponent's
\* replies, the replies being cut to the same number of cells (15, or 20 on
\* Hard) and sorted in the same way as the candidates of the last stage of
\* ai_move, and the scan of the replies stopping at the first reply that
\* brings the best score above 500.
C32_RepliesAreStageCandidates ==
    [][\A mid \in AiTurns :
         (AiStage(mid) = 4 /\ Depth(mid.difficulty) > 0) =>
           \A m \in StageCandidates(mid) :
              evaluate_move(mid.board, mid.current_player, m[1], m[2],
                            Depth(mid.difficulty))
                = StatedScore(mid.board, mid.current_player, m[1], m[2],
                              mid.difficulty)]_vars

====
